---- MODULE Spec2Model ----
(***************************************************************************)
(* Outbound request governance of the scryfall-connector gateway.          *)
(*                                                                         *)
(* Two upstream clients (the card database "scryfall", the combo database  *)
(* "csb") each keep a module-level rate limiter: lastStart, and queue, a   *)
(* chain of promises ("tickets").  getJson / postText loop over attempts,  *)
(* each attempt going through acquireSlot and then fetch; a 429 is retried *)
(* after a back-off sleep.  The repository holds two revisions of the      *)
(* card-database client: one with the limiter and one whose getJson calls  *)
(* fetch directly; the revision loaded by the process is the variable      *)
(* scryfallModule.                                                         *)
(*                                                                         *)
(* On top of the combo-database client, csb-index.ts keeps an index of the   *)
(* catalog (oracleId -> id) in three tiers: the module variable memCache, a *)
(* JSON file whose modification time is its age, and a rebuild that pages   *)
(* through the catalog.  The tag scraper keeps the tag lists the same way.  *)
(*                                                                         *)
(* Time is the value of Date.now() in ms.  A timer set by sleep(w) fires   *)
(* at any clock value >= the value at the call + w.                        *)
(***************************************************************************)
EXTENDS Integers, Sequences, FiniteSets, TLC

\* ---------------------------------------------------------------- bounds
NCallers == 2
MaxTicks == 4
SoloTicks == 7
LiveTicks == 12
TickMs == 500
MaxRetryAfter == 1
Max429 == 1
NLoaders == 2
CacheTicks == 2
MaxPages == 3
MaxIds == 3
\* anchors on the tag page
MaxAnchors == 2
\* names given to the find-combos-by-names tool
MaxNames == 2

\* ------------------------------------------------- program configuration
\* CSB_INTERVAL_MS / SCRYFALL_INTERVAL_MS (default 100)
intervalMs == 1000
\* CSB_MAX_RETRIES / SCRYFALL_MAX_RETRIES (default 3)
maxRetries == 3
\* CSB_RETRY_BASE_MS / SCRYFALL_RETRY_BASE_MS (default 250)
retryBaseMs == 250
\* retryAfter * 1000
MsPerSecond == 1000

Callers == 1..NCallers
Governors == {"scryfall", "csb"}
\* the revisions of the card-database client module
ScryfallModules == {"limited", "direct"}
\* the request functions a client operation delegates to
RequestFns == {"csb.getJson", "csb.postText", "scryfall.getJson"}
\* response statuses the upstream may answer with
Statuses == {200, 429, 500}
\* headers.get returns null when the header is absent
NoHeader == -1
\* values of res.headers.get("Retry-After"): null, or a number of seconds
RetryAfterHeaders == {NoHeader} \cup (0..MaxRetryAfter)

\* Date.now() when the process starts: far beyond lastStart = 0 plus intervalMs
StartTime == intervalMs

Max(a, b) == IF a >= b THEN a ELSE b

RECURSIVE Pow2(_)
Pow2(k) == IF k = 0 THEN 1 ELSE 2 * Pow2(k - 1)

VARIABLES
    now,            \* Date.now()
    scryfallModule, \* which revision of the card-database client is loaded
    lastStart,      \* [governor -> ms]
    prevStart,      \* [governor -> the value lastStart held before its latest write]
    queue,          \* [governor -> ticket]  the tail promise
    resolved,       \* [governor -> set of tickets]  promises already resolved
    pc,             \* [caller -> position in getJson/postText/acquireSlot]
    fn,             \* [caller -> request function]
    attempt,        \* [caller -> loop variable of the retry loop]
    prev,           \* [caller -> ticket awaited]
    mine,           \* [caller -> ticket created (release resolves it)]
    wakeAt,         \* [caller -> earliest clock value at which its timer fires]
    sleepMs,        \* [caller -> argument of the pending sleep()]
    res,            \* [caller -> response being handled]
    outcome,        \* [caller -> result of the call]
    issued,         \* [caller -> number of fetch() calls made]
    received,       \* [caller -> number of responses received]
    statusLog,      \* [caller -> the response statuses received, in order]
    seen429,        \* [caller -> number of consecutive 429 responses received so far]
    quota429,       \* number of 429 responses the upstreams still give
    horizon,        \* the clock value up to which behaviours are explored
    arrivals,       \* [governor -> sequence of <<caller, attempt>> in acquireSlot call order]
    grants,         \* [governor -> sequence of <<caller, attempt>> in lastStart write order]
    memCache,       \* [cache -> {} or {[at, data]}]  the module variable memCache
    file,           \* [cache -> the cache file: absent, unreadable, or mtime and text]
    lpc,            \* [loader -> position in load/fetchTaggerTags/read...]
    call,           \* [loader -> the operation called and its options]
    callAt,         \* [loader -> `now`, the Date.now() taken when the call began]
    offset,         \* [loader -> buildCsbIndex: offset]
    total,          \* [loader -> buildCsbIndex: total]
    acc,            \* [loader -> buildCsbIndex: oracleToId]
    built,          \* [loader -> {} or {data}: the result of the rebuild]
    ret,            \* [loader -> what the call returned or threw]
    requests,       \* [loader -> offsets of the page requests made, in order]
    served,         \* [loader -> pages received, in order]
    trail,          \* [loader -> the tiers the call went through, in order]
    after,           \* [loader -> the loaders whose call had returned when this one began]
    tool            \* the run of the csb_find_combos_by_names tool

vars == <<now, scryfallModule, lastStart, prevStart, queue, resolved, pc, fn, attempt, prev, mine,
          wakeAt, sleepMs, res, outcome, issued, received, statusLog, seen429, quota429, horizon, arrivals, grants,
          memCache, file, lpc, call, callAt, offset, total, acc, built, ret, requests, served,
          trail, after, tool>>

\* the state of the index and tag caches and of the calls on them
cacheVars == <<memCache, file, lpc, call, callAt, offset, total, acc, built, ret, requests,
               served, trail, after>>

\* the state of the two upstream clients and of the calls on them
clientVars == <<scryfallModule, lastStart, prevStart, queue, resolved, pc, fn, attempt, prev,
                mine, wakeAt, sleepMs, res, outcome, issued, received, statusLog, seen429,
                quota429, arrivals, grants>>

govVars == <<lastStart, prevStart, queue, resolved, arrivals, grants>>

NoRes == [retryAfter |-> NoHeader, status |-> 0]
NoOutcome == [kind |-> "pending"]

\* ------------------------------------------------------------ pure parts

\* one limiter shared by both clients
GovernorShared(f) == "csb"

\* the governor (module-level lastStart/queue) a request function uses
GovernorOf(f) == IF f = "scryfall.getJson" THEN "scryfall" ELSE "csb"

\* postText written without the acquireSlot call
UsesGovernorGetOnly(f, module) ==
    /\ ~(f = "scryfall.getJson" /\ module = "direct")
    /\ f # "csb.postText"

\* does this request function go through acquireSlot before fetch
UsesGovernor(f, module) == ~(f = "scryfall.getJson" /\ module = "direct")

\* the interval left out of the arithmetic
WaitIgnoresInterval(ls, t) == Max(0, ls - t)

\* Math.max(0, lastStart + intervalMs - now)
Wait(ls, t) == Max(0, ls + intervalMs - t)

\* Number(res.headers.get("Retry-After") || 0)
RetryAfterOf(h) == IF h = NoHeader THEN 0 ELSE h

\* the header never consulted
BackoffIgnoresHint(h, k) == retryBaseMs * Pow2(k)

\* linear instead of exponential growth
BackoffLinear(h, k) ==
    IF RetryAfterOf(h) > 0 THEN RetryAfterOf(h) * MsPerSecond ELSE retryBaseMs * (k + 1)

\* retryAfter > 0 ? retryAfter * 1000 : retryBaseMs * Math.pow(2, attempt)
Backoff(h, k) ==
    IF RetryAfterOf(h) > 0 THEN RetryAfterOf(h) * MsPerSecond ELSE retryBaseMs * Pow2(k)

\* res.ok
Ok(status) == status >= 200 /\ status <= 299

\* the attempt test left out
ShouldRetryAny429(status, k) == status = 429

\* every failure retried
ShouldRetryAnyFailure(status, k) == ~Ok(status) /\ k < maxRetries

\* res.status === 429 && attempt < maxRetries
ShouldRetry(status, k) == status = 429 /\ k < maxRetries

\* postText with every failure retried
PostShouldRetryAnyFailure(status, k) == ~Ok(status) /\ k < maxRetries

\* postText: res.status === 429 && attempt < maxRetries
PostShouldRetry(status, k) == status = 429 /\ k < maxRetries

\* the retry test of the loop body of request function f
RetriesOn(f, status, k) ==
    IF f = "csb.postText" THEN PostShouldRetry(status, k) ELSE ShouldRetry(status, k)

\* the for-loop condition
LoopContinues(k) == k <= maxRetries

StatusText(status) == IF status = 200 THEN "OK"
                      ELSE IF status = 429 THEN "Too Many Requests"
                      ELSE "Internal Server Error"

\* new Error(`... request failed: ${res.status} ${res.statusText} - ${text}`)
StatusError(status, text) ==
    [status |-> status, kind |-> "status", text |-> text, statusText |-> StatusText(status)]

\* new Error("... request failed after retries")
ExhaustedError == [kind |-> "exhausted"]

\* an already resolved promise awaited instead of the tail
AwaitResolvedPromise(p) == 0

\* the promise acquireSlot awaits: the tail it found (const prev = queue; await prev)
AwaitTarget(p) == p

\* the assignment queue = next left out
SwapTailKeepsOld(old, next) == old

\* queue = next
SwapTail(old, next) == next

\* ------------------------------------------------- caches: configuration

\* const limit = 100
limit == 100
\* CSB_CARD_INDEX_TTL_MS (default 24 h); the tag cache's DEFAULT_TTL_MS
DEFAULT_TTL_MS == 1000

Loaders == 1..NLoaders
\* the two cache modules: csb-index.ts and the tag scraper
Caches == {"index", "tags"}

\* options?.ttlMs not given
NoTtl == -1
\* page.count not given
NoCount == -1

\* ------------------------------------------------------ caches: the data

\* a JSON value with its typeof
Str(v) == [type |-> "string", val |-> v]
Num(v) == [type |-> "number", val |-> v]
Undefined == [type |-> "undefined", val |-> 0]

\* one element of page.results: the fields oracleId and id
Entry(oid, id) == [id |-> id, oracleId |-> oid]

\* the entries the catalog serves: two with the same key, one with another key,
\* one without key, one whose id is a string
EntryPool == {Entry(Str(1), Num(1)), Entry(Str(1), Num(2)), Entry(Str(2), Num(3)),
              Entry(Undefined, Num(3)), Entry(Str(2), Str(3))}

\* the values of page.results: not an array, empty, or a list of entries
ResultLists == {<<>>} \cup {<<e>> : e \in EntryPool}
                  \cup {<<Entry(Str(1), Num(1)), Entry(Str(1), Num(2))>>,
                        <<Entry(Str(1), Num(2)), Entry(Str(1), Num(1))>>}

\* the pages the catalog endpoint may answer with
Pages ==
    [next : BOOLEAN, count : {NoCount, 2, 3}, isArray : {TRUE}, results : ResultLists]
    \cup [next : BOOLEAN, count : {NoCount, 2, 3}, isArray : {FALSE}, results : {<<>>}]

\* a catalog of two pages: keys 1 and 3 are in it, key 2 is not
FirstPage == [next |-> TRUE, count |-> 2, isArray |-> TRUE, results |-> <<Entry(Str(1), Num(1))>>]
LastPage == [next |-> FALSE, count |-> 2, isArray |-> TRUE, results |-> <<Entry(Str(3), Num(3))>>]

\* the empty oracleToId: Object.create(null)
EmptyMap == [k \in {} |-> 0]

\* CsbCardIndex
Index(at, n, map) == [total |-> n, builtAtMs |-> at, oracleToId |-> map]

\* a JSON document that is not a CsbCardIndex
OtherJson == [other |-> TRUE]

\* the source keys lookups ask for
Keys == 1..3

\* one <a href="/search?q=PREFIX%3A...">TEXT</a> of the tag documentation page;
\* text 0 is an anchor text that trims to the empty string
Anchor(prefix, text) == [text |-> text, prefix |-> prefix]

\* the documents the tag page may hold
Docs == {<<>>, <<Anchor("otag", 2), Anchor("arttag", 1), Anchor("otag", 1)>>}

\* the markers the regular expression of the scan accepts, lower-cased
Prefixes == {"art", "arttag", "atag", "function", "oracletag", "otag"}

\* every tag page of at most MaxAnchors anchors
TagDocs == UNION {[1..n -> [text : 0..2, prefix : Prefixes]] : n \in 0..MaxAnchors}

\* Array.isArray(page?.results) ? page.results : []
Results(page) == IF page.isArray THEN page.results ELSE <<>>

\* typeof oid === "string" && typeof id === "number"
Keeps(c) == c.oracleId.type = "string" /\ c.id.type = "number"

\* the loop over results with the test for an earlier entry left out
RECURSIVE AccumulateLastWins(_, _)
AccumulateLastWins(map, results) ==
    IF results = <<>> THEN map
    ELSE LET c == Head(results)
             oid == c.oracleId.val
         IN  AccumulateLastWins(IF Keeps(c)
                                THEN [k \in DOMAIN map \cup {oid} |->
                                         IF k = oid THEN c.id.val ELSE map[k]]
                                ELSE map,
                                Tail(results))

\* the loop over results: if (!(oid in oracleToId)) oracleToId[oid] = id
RECURSIVE Accumulate(_, _)
Accumulate(map, results) ==
    IF results = <<>> THEN map
    ELSE LET c == Head(results)
             oid == c.oracleId.val
         IN  Accumulate(IF Keeps(c) /\ oid \notin DOMAIN map
                        THEN [k \in DOMAIN map \cup {oid} |->
                                 IF k = oid THEN c.id.val ELSE map[k]]
                        ELSE map,
                        Tail(results))

\* total = Number(page?.count ?? total)
TotalAfter(page, n) == IF page.count = NoCount THEN n ELSE page.count

\* the length test made on page.results itself, which has no length 0 when it is
\* not an array
StopsOnEmptyArray(page) == ~page.next \/ (page.isArray /\ Len(page.results) = 0)

\* the loop left only on a page without next
StopsWithoutNext(page) == ~page.next

\* if (!page?.next || results.length === 0) break
Stops(page) == ~page.next \/ Len(Results(page)) = 0

\* offset += limit
NextOffset(o) == o + limit

\* the ascending list of the members of a set of numbers
RECURSIVE Sorted(_)
Sorted(S) ==
    IF S = {} THEN <<>>
    ELSE LET m == CHOOSE x \in S : \A y \in S : x <= y
         IN  <<m>> \o Sorted(S \ {m})

\* uniqSorted
uniqSorted(values) == Sorted({values[i] : i \in 1..Len(values)})

\* prefix.startsWith("art")
IsArtPrefix(prefix) == prefix \in {"arttag", "art"}

\* the scan of the page: anchors with empty text skipped, the others pushed to
\* artTags or functionTags
TagTexts(doc, art) ==
    SelectSeq([i \in 1..Len(doc) |-> IF doc[i].text # 0 /\ IsArtPrefix(doc[i].prefix) = art
                                     THEN doc[i].text ELSE 0],
              LAMBDA t : t # 0)

\* { function: uniqSorted(functionTags), art: uniqSorted(artTags) }
ExtractTags(doc) ==
    [art |-> uniqSorted(TagTexts(doc, TRUE)), function |-> uniqSorted(TagTexts(doc, FALSE))]

\* JSON.stringify(data, null, 2)
Stringify(data) == [kind |-> "json", value |-> data]

\* a file text JSON.parse throws on
Garbage == [kind |-> "garbage"]

\* the file just opened with flag 'w': no text yet
Truncated == [kind |-> "empty"]

\* a text of n units in which a shorter text was written over a longer one
Mixed(n) == [kind |-> "mixed", size |-> n]

\* the length of JSON.stringify(data), counted in entries
Size(data) ==
    IF "oracleToId" \in DOMAIN data THEN Cardinality(DOMAIN data.oracleToId)
    ELSE IF "art" \in DOMAIN data THEN Len(data.art) + Len(data.function)
    ELSE 1

\* the length of a file text
TextSize(text) ==
    IF text.kind = "json" THEN Size(text.value)
    ELSE IF text.kind = "mixed" THEN text.size
    ELSE 0

\* the write of writeFile after its open: the text goes over the file from
\* position 0, and what the file holds beyond its length stays
Overwrite(text, data) ==
    IF TextSize(text) > Size(data) THEN Mixed(TextSize(text)) ELSE Stringify(data)

\* the cache file does not exist / cannot be read
Absent == [state |-> "absent"]
Unreadable == [state |-> "unreadable"]
\* the cache file with its mtimeMs and its text
Present(mtime, text) == [text |-> text, state |-> "present", mtime |-> mtime]

\* the text of the file returned unparsed
ReadFileUnparsed(f) ==
    IF f.state = "present" THEN {[at |-> f.mtime, data |-> f.text]} ELSE {}

\* readCsbIndex / readTaggerCache: {data, at: st.mtimeMs}, or null on any failure
ReadFile(f) ==
    IF f.state = "present" /\ f.text.kind = "json"
    THEN {[at |-> f.mtime, data |-> f.text.value]}
    ELSE {}

\* const ttl = options?.ttlMs ?? DEFAULT_TTL_MS
TtlOf(opts) == IF opts.ttlMs = NoTtl THEN DEFAULT_TTL_MS ELSE opts.ttlMs

\* the age never compared with ttl
FreshAlways(copy, t, ttl) == copy # {}

\* memCache && now - memCache.at < ttl, and disk && now - disk.at < ttl
Fresh(copy, t, ttl) == copy # {} /\ \A m \in copy : t - m.at < ttl

\* the memory tier never used
UsesMemoryNever(opts, mem, t) == FALSE

\* the memory tier used by forced calls too
UsesMemoryForced(opts, mem, t) == Fresh(mem, t, TtlOf(opts))

\* !options?.force && memCache && now - memCache.at < ttl
UsesMemory(opts, mem, t) == ~opts.force /\ Fresh(mem, t, TtlOf(opts))

\* if (!options?.force) { const disk = await read...(cachePath); ... }
ReadsDisk(opts) == ~opts.force

\* the loop of lookupCsbIdsByOracle from position i on
RECURSIVE Partition(_, _, _, _, _)
Partition(map, ids, i, found, missing) ==
    IF i > Len(ids) THEN [found |-> found, missing |-> missing]
    ELSE IF ids[i] \in DOMAIN map
         THEN Partition(map, ids, i + 1,
                        [k \in DOMAIN found \cup {ids[i]} |->
                            IF k = ids[i] THEN map[ids[i]] ELSE found[k]],
                        missing)
         ELSE Partition(map, ids, i + 1, found, Append(missing, ids[i]))

\* the operations on the caches and their options
NoCall == [ttlMs |-> NoTtl, force |-> FALSE, ids |-> <<>>, cache |-> "index", op |-> "none"]
\* loadCsbIndex({force, ttlMs})
LoadCall(force, ttlMs) ==
    [ttlMs |-> ttlMs, force |-> force, ids |-> <<>>, cache |-> "index", op |-> "load"]
\* lookupCsbIdsByOracle(ids)
LookupCall(ids) ==
    [ttlMs |-> NoTtl, force |-> FALSE, ids |-> ids, cache |-> "index", op |-> "lookup"]
\* fetchTaggerTags()
FetchTagsCall ==
    [ttlMs |-> NoTtl, force |-> FALSE, ids |-> <<>>, cache |-> "tags", op |-> "fetchTags"]
\* refreshTaggerTags(): fetchTaggerTags({force: true, cachePath, ttlMs: 0}), then a write
RefreshTagsCall ==
    [ttlMs |-> 0, force |-> TRUE, ids |-> <<>>, cache |-> "tags", op |-> "refreshTags"]
\* the csb_build_card_index tool: buildCsbIndex(), then writeCsbIndex(data)
BuildIndexCall ==
    [ttlMs |-> NoTtl, force |-> TRUE, ids |-> <<>>, cache |-> "index", op |-> "buildIndex"]
\* readCsbIndex() / readTaggerCache()
ReadCall(k) == [ttlMs |-> NoTtl, force |-> FALSE, ids |-> <<>>, cache |-> k, op |-> "read"]

NoRet == [kind |-> "pending"]

\* the rejection of writeFile / mkdir
WriteError == [kind |-> "EACCES"]

\* the write failure raised instead of caught
LoadResultRaises(ok, data) ==
    IF ok THEN [kind |-> "data", value |-> data] ELSE [kind |-> "error", error |-> WriteError]

\* await write...(data, cachePath).catch(() => {}); return data
LoadResult(ok, data) == [kind |-> "data", value |-> data]

\* a failed rebuild answered from the copy in memory
BuildFailureFallsBack(err, mem) ==
    IF mem = {} THEN [kind |-> "data", value |-> Index(0, 0, EmptyMap)]
    ELSE [kind |-> "data", value |-> (CHOOSE m \in mem : TRUE).data]

\* the rejection of CSB.cards / the throw of fetchTaggerTags leaves load uncaught
BuildFailure(err, mem) == [kind |-> "error", error |-> err]

\* new TypeError: idx.oracleToId is undefined
TypeError == [kind |-> "error", error |-> [kind |-> "TypeError"]]

\* missing collected as a sorted set instead of in input order
LookupSortedMissing(idx, ids) ==
    IF "oracleToId" \in DOMAIN idx
    THEN [kind |-> "lookup",
          value |-> [found |-> Partition(idx.oracleToId, ids, 1, EmptyMap, <<>>).found,
                     missing |-> Sorted({ids[i] : i \in 1..Len(ids)} \ DOMAIN idx.oracleToId)]]
    ELSE TypeError

\* lookupCsbIdsByOracle after `await loadCsbIndex(options)`
Lookup(idx, ids) ==
    IF "oracleToId" \in DOMAIN idx
    THEN [kind |-> "lookup", value |-> Partition(idx.oracleToId, ids, 1, EmptyMap, <<>>)]
    ELSE IF ids = <<>> THEN [kind |-> "lookup", value |-> [found |-> EmptyMap, missing |-> <<>>]]
    ELSE TypeError

\* what the operation makes of the result of its load
Completion(c, r) ==
    IF c.op = "lookup" /\ r.kind = "data" THEN Lookup(r.value, c.ids) ELSE r

\* ------------------------------------------- the find-combos-by-names tool

\* Scryfall.getCardNamed(name, fuzzy) rejects
NameError == [kind |-> "error"]

\* the card Scryfall.getCardNamed returns, with its oracle_id
Card(oid) == [kind |-> "card", oracle_id |-> oid]

\* what the lookup of one name may give: a failure, a card whose oracle_id is a
\* string, a card without one
NameOutcomes == {NameError} \cup {Card(Str(k)) : k \in Keys} \cup {Card(Undefined)}

\* the lists of names the tool is called with (z.array(z.string()).min(1))
NameLists == UNION {[1..n -> 1..2] : n \in 1..MaxNames}

\* the tool not called
NoTool ==
    [pc |-> "absent", names |-> <<>>, tried |-> <<>>, got |-> <<>>, oracleIds |-> <<>>,
     mapping |-> NoRet, out |-> NoRet]

\* the handler entered with `names`
StartTool(names) == [NoTool EXCEPT !.pc = "resolving", !.names = names]

\* a failed lookup of a name rethrown by the handler
AfterNameAborts(t, o) ==
    IF o.kind = "error"
    THEN [t EXCEPT !.pc = "done", !.out = [kind |-> "error", error |-> NameError],
                   !.tried = Append(@, t.names[Len(t.tried) + 1]), !.got = Append(@, o)]
    ELSE [t EXCEPT !.tried = Append(@, t.names[Len(t.tried) + 1]),
                   !.got = Append(@, o),
                   !.oracleIds = IF o.oracle_id.type = "string"
                                 THEN Append(@, o.oracle_id.val) ELSE @]

\* one turn of the loop over names: try { card = await getCardNamed; if
\* (typeof oid === "string") oracleIds.push(oid) } catch { }
AfterName(t, o) ==
    [t EXCEPT !.tried = Append(@, t.names[Len(t.tried) + 1]),
              !.got = Append(@, o),
              !.oracleIds = IF o.kind = "card" /\ o.oracle_id.type = "string"
                            THEN Append(@, o.oracle_id.val) ELSE @]

\* Array.from(new Set(oracleIds)): first occurrences, in order
RECURSIVE Uniq(_)
Uniq(seq) ==
    IF seq = <<>> THEN <<>>
    ELSE LET front == Uniq(SubSeq(seq, 1, Len(seq) - 1))
             x == seq[Len(seq)]
         IN  IF \E i \in 1..Len(front) : front[i] = x THEN front ELSE Append(front, x)

\* the loop over names is over
NamesDone(t) == t.pc = "resolving" /\ Len(t.tried) = Len(t.names)

\* ------------------------------------------------------------------ init

\* the caches when the process starts, with the cache files as found
CacheInit(active, files) ==
    /\ memCache = [k \in Caches |-> {}]
    /\ file \in files
    /\ lpc = [l \in Loaders |-> IF l \in active THEN "idle" ELSE "absent"]
    /\ call = [l \in Loaders |-> NoCall]
    /\ callAt = [l \in Loaders |-> 0]
    /\ offset = [l \in Loaders |-> 0]
    /\ total = [l \in Loaders |-> 0]
    /\ acc = [l \in Loaders |-> EmptyMap]
    /\ built = [l \in Loaders |-> {}]
    /\ ret = [l \in Loaders |-> NoRet]
    /\ requests = [l \in Loaders |-> <<>>]
    /\ served = [l \in Loaders |-> <<>>]
    /\ trail = [l \in Loaders |-> <<>>]
    /\ after = [l \in Loaders |-> {}]

NoFiles == {[k \in Caches |-> Absent]}

\* the clients when the process starts
ClientInit(active, quota) ==
    /\ quota429 = quota
    /\ lastStart = [g \in Governors |-> 0]
    /\ prevStart = [g \in Governors |-> 0]
    /\ queue = [g \in Governors |-> 0]
    /\ resolved = [g \in Governors |-> {0}]
    /\ pc = [c \in Callers |-> IF c \in active THEN "idle" ELSE "absent"]
    /\ fn = [c \in Callers |-> "csb.getJson"]
    /\ attempt = [c \in Callers |-> 0]
    /\ prev = [c \in Callers |-> 0]
    /\ mine = [c \in Callers |-> 0]
    /\ wakeAt = [c \in Callers |-> 0]
    /\ sleepMs = [c \in Callers |-> 0]
    /\ res = [c \in Callers |-> NoRes]
    /\ outcome = [c \in Callers |-> NoOutcome]
    /\ issued = [c \in Callers |-> 0]
    /\ received = [c \in Callers |-> 0]
    /\ statusLog = [c \in Callers |-> <<>>]
    /\ seen429 = [c \in Callers |-> 0]
    /\ arrivals = [g \in Governors |-> <<>>]
    /\ grants = [g \in Governors |-> <<>>]

InitWith(active, quota, ticks) ==
    /\ now = StartTime
    /\ horizon = StartTime + ticks * TickMs
    /\ scryfallModule \in ScryfallModules
    /\ ClientInit(active, quota)
    /\ CacheInit({}, NoFiles)
    /\ tool = NoTool

\* concurrent callers; the upstreams rate-limit at most Max429 times
Init == InitWith(Callers, Max429, MaxTicks)

\* one caller; the upstream may rate-limit every attempt
InitSolo == InitWith({1}, maxRetries + 1, SoloTicks)

\* --------------------------------------------------------------- actions

\* acquireSlot called once before the retry loop: a retry goes on without queueing
EnterAcquireOncePerCall(c, f, k) ==
    LET g == GovernorOf(f)
        ticket == Len(arrivals[g]) + 1
    IN  IF k = 0
        THEN /\ prev' = [prev EXCEPT ![c] = queue[g]]
             /\ mine' = [mine EXCEPT ![c] = ticket]
             /\ queue' = [queue EXCEPT ![g] = SwapTail(@, ticket)]
             /\ arrivals' = [arrivals EXCEPT ![g] = Append(@, <<c, k>>)]
             /\ pc' = [pc EXCEPT ![c] = "awaitPrev"]
        ELSE /\ UNCHANGED <<prev, mine, queue, arrivals>>
             /\ pc' = [pc EXCEPT ![c] = "acquired"]

\* acquireSlot up to its first await: prev = queue; queue = next; await prev
EnterAcquire(c, f, k) ==
    LET g == GovernorOf(f)
        ticket == Len(arrivals[g]) + 1
    IN  /\ prev' = [prev EXCEPT ![c] = queue[g]]
        /\ mine' = [mine EXCEPT ![c] = ticket]
        /\ queue' = [queue EXCEPT ![g] = SwapTail(@, ticket)]
        /\ arrivals' = [arrivals EXCEPT ![g] = Append(@, <<c, k>>)]
        /\ pc' = [pc EXCEPT ![c] = "awaitPrev"]

\* lastStart = Date.now() without the call of release
RecordNoRelease(c) ==
    LET g == GovernorOf(fn[c])
    IN  /\ lastStart' = [lastStart EXCEPT ![g] = now]
        /\ prevStart' = [prevStart EXCEPT ![g] = lastStart[g]]
        /\ resolved' = resolved
        /\ grants' = [grants EXCEPT ![g] = Append(@, <<c, attempt[c]>>)]
        /\ pc' = [pc EXCEPT ![c] = "acquired"]

\* lastStart = Date.now(); release()
RecordAndRelease(c) ==
    LET g == GovernorOf(fn[c])
    IN  /\ lastStart' = [lastStart EXCEPT ![g] = now]
        /\ prevStart' = [prevStart EXCEPT ![g] = lastStart[g]]
        /\ resolved' = [resolved EXCEPT ![g] = @ \cup {mine[c]}]
        /\ grants' = [grants EXCEPT ![g] = Append(@, <<c, attempt[c]>>)]
        /\ pc' = [pc EXCEPT ![c] = "acquired"]

\* a tool calls a client operation: getJson/postText runs to its first await
Call(c, f) ==
    /\ pc[c] = "idle"
    /\ fn' = [fn EXCEPT ![c] = f]
    /\ attempt' = [attempt EXCEPT ![c] = 0]
    /\ IF UsesGovernor(f, scryfallModule)
       THEN /\ EnterAcquire(c, f, 0)
            /\ UNCHANGED issued
       ELSE /\ pc' = [pc EXCEPT ![c] = "fetching"]
            /\ issued' = [issued EXCEPT ![c] = @ + 1]
            /\ UNCHANGED <<prev, mine, queue, arrivals>>
    /\ UNCHANGED <<quota429, horizon, now, scryfallModule, lastStart, prevStart, resolved, wakeAt, sleepMs,
                   res, outcome, received, statusLog, seen429, grants>>
    /\ UNCHANGED <<cacheVars, tool>>

\* acquireSlot resumes after `await prev`
Grant(c) ==
    /\ pc[c] = "awaitPrev"
    /\ AwaitTarget(prev[c]) \in resolved[GovernorOf(fn[c])]
    /\ LET w == Wait(lastStart[GovernorOf(fn[c])], now)
       IN  IF w > 0
           THEN /\ pc' = [pc EXCEPT ![c] = "slotSleep"]
                /\ wakeAt' = [wakeAt EXCEPT ![c] = now + w]
                /\ sleepMs' = [sleepMs EXCEPT ![c] = w]
                /\ UNCHANGED <<lastStart, prevStart, resolved, grants>>
           ELSE /\ RecordAndRelease(c)
                /\ UNCHANGED <<wakeAt, sleepMs>>
    /\ UNCHANGED <<quota429, horizon, now, scryfallModule, queue, fn, attempt, prev, mine, res, outcome,
                   issued, received, statusLog, seen429, arrivals>>
    /\ UNCHANGED <<cacheVars, tool>>

\* the timer of `await sleep(wait)` fires; acquireSlot finishes
SlotWake(c) ==
    /\ pc[c] = "slotSleep"
    /\ now >= wakeAt[c]
    /\ RecordAndRelease(c)
    /\ sleepMs' = [sleepMs EXCEPT ![c] = 0]
    /\ wakeAt' = [wakeAt EXCEPT ![c] = 0]
    /\ UNCHANGED <<quota429, horizon, now, scryfallModule, queue, fn, attempt, prev, mine, res,
                   outcome, issued, received, statusLog, seen429, arrivals>>
    /\ UNCHANGED <<cacheVars, tool>>

\* getJson/postText resumes after `await acquireSlot()` and calls fetch
Fetch(c) ==
    /\ pc[c] = "acquired"
    /\ pc' = [pc EXCEPT ![c] = "fetching"]
    /\ issued' = [issued EXCEPT ![c] = @ + 1]
    /\ UNCHANGED <<quota429, horizon, now, scryfallModule, govVars, fn, attempt, prev, mine, wakeAt, sleepMs,
                   res, outcome, received, statusLog, seen429>>
    /\ UNCHANGED <<cacheVars, tool>>

\* the response arrives; the rest of the loop body runs
Respond(c, status, hdr, text) ==
    /\ pc[c] = "fetching"
    /\ UsesGovernor(fn[c], scryfallModule)
    /\ received' = [received EXCEPT ![c] = @ + 1]
    /\ statusLog' = [statusLog EXCEPT ![c] = Append(@, status)]
    /\ seen429' = [seen429 EXCEPT ![c] = IF status = 429 THEN @ + 1 ELSE 0]
    /\ status = 429 => quota429 > 0
    /\ quota429' = IF status = 429 THEN quota429 - 1 ELSE quota429
    /\ IF RetriesOn(fn[c], status, attempt[c])
       THEN /\ pc' = [pc EXCEPT ![c] = "backoff"]
            /\ sleepMs' = [sleepMs EXCEPT ![c] = Backoff(hdr, attempt[c])]
            /\ wakeAt' = [wakeAt EXCEPT ![c] = now + Backoff(hdr, attempt[c])]
            /\ res' = [res EXCEPT ![c] = [retryAfter |-> hdr, status |-> status]]
            /\ UNCHANGED outcome
       ELSE /\ pc' = [pc EXCEPT ![c] = "done"]
            /\ outcome' = [outcome EXCEPT ![c] =
                  IF ~Ok(status) THEN StatusError(status, text) ELSE [kind |-> "json"]]
            /\ UNCHANGED <<sleepMs, wakeAt, res>>
    /\ UNCHANGED <<horizon, now, scryfallModule, govVars, fn, attempt, prev, mine, issued>>
    /\ UNCHANGED <<cacheVars, tool>>

\* the response arrives at the client revision without limiter or retry loop
DirectRespond(c, status, text) ==
    /\ pc[c] = "fetching"
    /\ ~UsesGovernor(fn[c], scryfallModule)
    /\ received' = [received EXCEPT ![c] = @ + 1]
    /\ statusLog' = [statusLog EXCEPT ![c] = Append(@, status)]
    /\ seen429' = [seen429 EXCEPT ![c] = IF status = 429 THEN @ + 1 ELSE 0]
    /\ status = 429 => quota429 > 0
    /\ quota429' = IF status = 429 THEN quota429 - 1 ELSE quota429
    /\ pc' = [pc EXCEPT ![c] = "done"]
    /\ outcome' = [outcome EXCEPT ![c] =
          IF ~Ok(status) THEN StatusError(status, text) ELSE [kind |-> "json"]]
    /\ UNCHANGED <<horizon, now, scryfallModule, govVars, fn, attempt, prev, mine, wakeAt,
                   sleepMs, res, issued>>
    /\ UNCHANGED <<cacheVars, tool>>

\* the back-off timer fires: `continue`, attempt++, loop test, next acquireSlot
BackoffWake(c) ==
    /\ pc[c] = "backoff"
    /\ now >= wakeAt[c]
    /\ attempt' = [attempt EXCEPT ![c] = @ + 1]
    /\ sleepMs' = [sleepMs EXCEPT ![c] = 0]
    /\ wakeAt' = [wakeAt EXCEPT ![c] = 0]
    /\ res' = [res EXCEPT ![c] = NoRes]
    /\ IF LoopContinues(attempt[c] + 1)
       THEN /\ EnterAcquire(c, fn[c], attempt[c] + 1)
            /\ UNCHANGED outcome
       ELSE /\ pc' = [pc EXCEPT ![c] = "done"]
            /\ outcome' = [outcome EXCEPT ![c] = ExhaustedError]
            /\ UNCHANGED <<prev, mine, queue, arrivals>>
    /\ UNCHANGED <<quota429, horizon, now, scryfallModule, lastStart, prevStart, resolved, fn, issued,
                   received, statusLog, seen429, grants>>
    /\ UNCHANGED <<cacheVars, tool>>

\* the clock advances
Tick ==
    /\ now + TickMs <= horizon
    /\ now' = now + TickMs
    /\ UNCHANGED <<quota429, horizon, scryfallModule, govVars, pc, fn, attempt, prev, mine, wakeAt, sleepMs,
                   res, outcome, issued, received, statusLog, seen429>>
    /\ UNCHANGED <<cacheVars, tool>>

Next ==
    \/ \E c \in Callers, f \in RequestFns : Call(c, f)
    \/ \E c \in Callers : Grant(c)
    \/ \E c \in Callers : SlotWake(c)
    \/ \E c \in Callers : Fetch(c)
    \/ \E c \in Callers, s \in Statuses, h \in RetryAfterHeaders, t \in {"", "body"} :
          Respond(c, s, h, t)
    \/ \E c \in Callers, s \in Statuses, t \in {"", "body"} : DirectRespond(c, s, t)
    \/ \E c \in Callers : BackoffWake(c)
    \/ Tick

Spec == Init /\ [][Next]_vars

SpecSolo == InitSolo /\ [][Next]_vars

\* a timer set by sleep() has not fired yet
PendingTimer == \E c \in Callers : pc[c] \in {"slotSleep", "backoff"} /\ now < wakeAt[c]

\* the clock advances while a timer is pending
TimerTick == PendingTimer /\ Tick

InitLive == InitWith(Callers, Max429, LiveTicks)

LiveNext ==
    \/ \E c \in Callers, f \in RequestFns : Call(c, f)
    \/ \E c \in Callers : Grant(c)
    \/ \E c \in Callers : SlotWake(c)
    \/ \E c \in Callers : Fetch(c)
    \/ \E c \in Callers, s \in Statuses, h \in RetryAfterHeaders, t \in {"", "body"} :
          Respond(c, s, h, t)
    \/ \E c \in Callers, s \in Statuses, t \in {"", "body"} : DirectRespond(c, s, t)
    \/ \E c \in Callers : BackoffWake(c)
    \/ TimerTick

\* the clients under fair scheduling: a continuation whose promise is resolved
\* runs, time passes while a timer is pending, a timer that is due fires; calls
\* and responses may or may not come
SpecLive ==
    /\ InitLive
    /\ [][LiveNext]_vars
    /\ \A c \in Callers : WF_vars(Grant(c)) /\ WF_vars(SlotWake(c))
    /\ WF_vars(TimerTick)

\* ------------------------------------------------------- caches: actions

\* the call of loader l returns (or throws) r
Return(l, c, r) ==
    IF c.op = "refreshTags" /\ r.kind = "data"
    THEN /\ lpc' = [lpc EXCEPT ![l] = "rewriting"]
         /\ UNCHANGED ret
    ELSE /\ lpc' = [lpc EXCEPT ![l] = "done"]
         /\ ret' = [ret EXCEPT ![l] = Completion(c, r)]

\* the rebuild begins: the first CSB.cards({limit, offset}) / the fetch of the page
StartBuild(l) ==
    /\ lpc' = [lpc EXCEPT ![l] = "building"]
    /\ requests' = [requests EXCEPT ![l] = <<0>>]

\* the rebuild is complete: memCache = {at: now, data}; the write begins. The
\* csb_build_card_index tool calls buildCsbIndex itself: it assigns nothing to
\* memCache and its write is not caught
FinishBuild(l, data) ==
    /\ memCache' = IF call[l].op = "buildIndex" THEN memCache
                   ELSE [memCache EXCEPT ![call[l].cache] = {[at |-> callAt[l], data |-> data]}]
    /\ built' = [built EXCEPT ![l] = {data}]
    /\ lpc' = [lpc EXCEPT ![l] = IF call[l].op = "buildIndex" THEN "rewriting" ELSE "writing"]
    /\ trail' = [trail EXCEPT ![l] = Append(@, "build")]

\* a tool calls an operation of a cache module; it runs to its first await
\* (loaders are numbered in the order of their calls)
StartCall(l, c) ==
    /\ lpc[l] = "idle"
    /\ \A m \in Loaders : m < l => lpc[m] # "idle"
    /\ call' = [call EXCEPT ![l] = c]
    /\ callAt' = [callAt EXCEPT ![l] = now]
    /\ after' = [after EXCEPT ![l] = {m \in Loaders : lpc[m] = "done"}]
    /\ IF c.op = "read"
       THEN /\ lpc' = [lpc EXCEPT ![l] = "reading"]
            /\ UNCHANGED <<ret, requests, trail>>
       ELSE IF UsesMemory(c, memCache[c.cache], now)
       THEN /\ Return(l, c, [kind |-> "data", value |-> (CHOOSE m \in memCache[c.cache] : TRUE).data])
            /\ trail' = [trail EXCEPT ![l] = <<"memory">>]
            /\ UNCHANGED requests
       ELSE IF ReadsDisk(c)
       THEN /\ lpc' = [lpc EXCEPT ![l] = "reading"]
            /\ UNCHANGED <<ret, requests, trail>>
       ELSE /\ StartBuild(l)
            /\ UNCHANGED <<ret, trail>>
    /\ UNCHANGED <<now, horizon, clientVars, tool, memCache, file, offset, total, acc, built, served>>

\* readFile and stat complete (or fail): the read returns, and load goes on
ReadDone(l) ==
    /\ lpc[l] = "reading"
    /\ LET c == call[l]
           disk == ReadFile(file[c.cache])
       IN  IF c.op = "read"
           THEN /\ lpc' = [lpc EXCEPT ![l] = "done"]
                /\ ret' = [ret EXCEPT ![l] = [kind |-> "read", value |-> disk]]
                /\ trail' = [trail EXCEPT ![l] = Append(@, "read")]
                /\ UNCHANGED <<memCache, requests>>
           ELSE IF Fresh(disk, callAt[l], TtlOf(c))
           THEN /\ memCache' = [memCache EXCEPT ![c.cache] = disk]
                /\ Return(l, c, [kind |-> "data", value |-> (CHOOSE m \in disk : TRUE).data])
                /\ trail' = [trail EXCEPT ![l] = Append(Append(@, "read"), "adopt")]
                /\ UNCHANGED requests
           ELSE /\ StartBuild(l)
                /\ trail' = [trail EXCEPT ![l] = Append(@, "read")]
                /\ UNCHANGED <<memCache, ret>>
    /\ UNCHANGED <<now, horizon, clientVars, tool, file, call, callAt, offset, total, acc, built, served,
                   after>>

\* a page of the catalog arrives: one turn of the loop of buildCsbIndex
BuildPage(l, page) ==
    /\ lpc[l] = "building"
    /\ call[l].cache = "index"
    /\ Len(served[l]) + 1 < MaxPages \/ ~page.next
    /\ served' = [served EXCEPT ![l] = Append(@, page)]
    /\ LET map == Accumulate(acc[l], Results(page))
           n == TotalAfter(page, total[l])
       IN  /\ acc' = [acc EXCEPT ![l] = map]
           /\ total' = [total EXCEPT ![l] = n]
           /\ IF Stops(page)
              THEN /\ FinishBuild(l, Index(now, n, map))
                   /\ UNCHANGED <<offset, requests>>
              ELSE /\ offset' = [offset EXCEPT ![l] = NextOffset(@)]
                   /\ requests' = [requests EXCEPT ![l] = Append(@, NextOffset(offset[l]))]
                   /\ UNCHANGED <<memCache, built, lpc, trail>>
    /\ UNCHANGED <<now, horizon, clientVars, tool, file, call, callAt, ret, after>>

\* the tag documentation page arrives: fetchTaggerTags extracts the tags
BuildDoc(l, doc) ==
    /\ lpc[l] = "building"
    /\ call[l].cache = "tags"
    /\ served' = [served EXCEPT ![l] = Append(@, doc)]
    /\ FinishBuild(l, ExtractTags(doc))
    /\ UNCHANGED <<now, horizon, clientVars, tool, file, call, callAt, offset, total, acc, ret, requests,
                   after>>

\* the rebuild that failed keeps what it had accumulated: memCache is assigned the
\* partial mapping before the error is thrown
BuildFailAdoptsPartial(l, err) ==
    /\ lpc[l] = "building"
    /\ Return(l, call[l], BuildFailure(err, memCache[call[l].cache]))
    /\ trail' = [trail EXCEPT ![l] = Append(@, "buildFailed")]
    /\ memCache' = [memCache EXCEPT ![call[l].cache] =
                       {[at |-> callAt[l], data |-> Index(now, total[l], acc[l])]}]
    /\ UNCHANGED <<now, horizon, clientVars, tool, file, call, callAt, offset, total, acc,
                   built, requests, served, after>>

\* the request of the rebuild fails: CSB.cards rejects / the tag page is not ok
BuildFail(l, err) ==
    /\ lpc[l] = "building"
    /\ Return(l, call[l], BuildFailure(err, memCache[call[l].cache]))
    /\ trail' = [trail EXCEPT ![l] = Append(@, "buildFailed")]
    /\ UNCHANGED <<now, horizon, clientVars, tool, memCache, file, call, callAt, offset, total, acc,
                   built, requests, served, after>>

\* writeFile opens the cache file with flag 'w', which empties it; the text is
\* written by a later step (fs/promises: await open, then await write)
WriteOpen(l) ==
    /\ lpc[l] \in {"writing", "rewriting"}
    /\ file' = [file EXCEPT ![call[l].cache] = Present(now, Truncated)]
    /\ lpc' = [lpc EXCEPT ![l] = IF lpc[l] = "writing" THEN "flushing" ELSE "reflushing"]
    /\ UNCHANGED <<now, horizon, clientVars, tool, memCache, call, callAt, offset, total, acc, built,
                   ret, requests, served, trail, after>>

\* the write of the rebuilt data completes, or fails (mkdir or open before the
\* file is touched, write after it was emptied); load returns
WriteDone(l, ok) ==
    /\ lpc[l] = "flushing" \/ (lpc[l] = "writing" /\ ~ok)
    /\ LET data == CHOOSE d \in built[l] : TRUE
           k == call[l].cache
       IN  /\ file' = IF ok THEN [file EXCEPT ![k] = Present(now, Overwrite(file[k].text, data))]
                      ELSE file
           /\ Return(l, call[l], LoadResult(ok, data))
    /\ trail' = [trail EXCEPT ![l] = Append(@, IF ok THEN "write" ELSE "writeFailed")]
    /\ UNCHANGED <<now, horizon, clientVars, tool, memCache, call, callAt, offset, total, acc, built,
                   requests, served, after>>

\* refreshTaggerTags, csb_build_card_index: their own write completes or fails
Rewrite(l, ok) ==
    /\ lpc[l] = "reflushing" \/ (lpc[l] = "rewriting" /\ ~ok)
    /\ LET data == CHOOSE d \in built[l] : TRUE
           k == call[l].cache
       IN  /\ file' = IF ok THEN [file EXCEPT ![k] = Present(now, Overwrite(file[k].text, data))]
                      ELSE file
           /\ ret' = [ret EXCEPT ![l] =
                 IF ~ok THEN [kind |-> "error", error |-> WriteError]
                 ELSE IF call[l].op = "buildIndex" THEN [kind |-> "built", value |-> data]
                 ELSE [kind |-> "refreshed",
                       value |-> [art |-> Len(data.art), function |-> Len(data.function)]]]
    /\ lpc' = [lpc EXCEPT ![l] = "done"]
    /\ trail' = [trail EXCEPT ![l] = Append(@, IF ok THEN "rewrite" ELSE "rewriteFailed")]
    /\ UNCHANGED <<now, horizon, clientVars, tool, memCache, call, callAt, offset, total, acc, built,
                   requests, served, after>>

\* a tool is called again after an earlier call returned: the new call has its
\* own locals; memCache and the files stay
CallAgain(l) ==
    /\ lpc[l] = "done"
    /\ lpc' = [lpc EXCEPT ![l] = "idle"]
    /\ call' = [call EXCEPT ![l] = NoCall]
    /\ callAt' = [callAt EXCEPT ![l] = 0]
    /\ offset' = [offset EXCEPT ![l] = 0]
    /\ total' = [total EXCEPT ![l] = 0]
    /\ acc' = [acc EXCEPT ![l] = EmptyMap]
    /\ built' = [built EXCEPT ![l] = {}]
    /\ ret' = [ret EXCEPT ![l] = NoRet]
    /\ requests' = [requests EXCEPT ![l] = <<>>]
    /\ served' = [served EXCEPT ![l] = <<>>]
    /\ trail' = [trail EXCEPT ![l] = <<>>]
    /\ after' = [after EXCEPT ![l] = {}]
    /\ UNCHANGED <<now, horizon, clientVars, tool, memCache, file>>

\* an index file written a while ago
OldIndex == Index(0, 1, [k \in {2} |-> 2])
\* the cache files the process may find when it starts
FilesFound ==
    [index : {Absent, Unreadable, Present(TickMs, Garbage), Present(0, Stringify(OldIndex)),
              Present(TickMs, Stringify(OldIndex)), Present(TickMs, Stringify(OtherJson))},
     tags : {Absent}]

\* the calls the tools make
Calls ==
    {LoadCall(FALSE, NoTtl), LoadCall(FALSE, 0), LoadCall(TRUE, NoTtl)}
        \cup {LookupCall(<<1, 2, 3>>), FetchTagsCall, RefreshTagsCall}
        \cup {ReadCall(k) : k \in Caches}

\* the errors a request of the rebuild fails with
BuildErrors == {StatusError(st, "") : st \in {429, 500}}

InitCache ==
    /\ now = StartTime
    /\ horizon = StartTime + CacheTicks * TickMs
    /\ scryfallModule = "limited"
    /\ ClientInit({}, 0)
    /\ CacheInit(Loaders, FilesFound)
    /\ tool = NoTool

\* the steps of the cache modules against a catalog that answers with `pages`
CacheStep(pages) ==
    \/ \E l \in Loaders, c \in Calls : StartCall(l, c)
    \/ \E l \in Loaders : ReadDone(l)
    \/ \E l \in Loaders, page \in pages : BuildPage(l, page)
    \/ \E l \in Loaders, doc \in Docs : BuildDoc(l, doc)
    \/ \E l \in Loaders, err \in BuildErrors : BuildFail(l, err)
    \/ \E l \in Loaders : WriteOpen(l)
    \/ \E l \in Loaders, ok \in BOOLEAN : WriteDone(l, ok)
    \/ \E l \in Loaders, ok \in BOOLEAN : Rewrite(l, ok)
    \/ Tick

CacheNext == CacheStep({LastPage})

\* the caches under concurrent calls, a catalog of one page behind them
SpecCache == InitCache /\ [][CacheNext]_vars

InitLoad ==
    /\ now = StartTime
    /\ horizon = StartTime + CacheTicks * TickMs
    /\ scryfallModule = "limited"
    /\ ClientInit({}, 0)
    /\ CacheInit({1}, FilesFound)
    /\ tool = NoTool

LoadNext == CacheStep({FirstPage, LastPage})

\* one call on the caches, a catalog of several pages behind them
SpecLoad == InitLoad /\ [][LoadNext]_vars

\* the one page of the catalog after it gained an entry
GrownPage ==
    [next |-> FALSE, count |-> 3, isArray |-> TRUE,
     results |-> <<Entry(Str(3), Num(3)), Entry(Str(2), Num(3))>>]

InitRace ==
    /\ now = StartTime
    /\ horizon = StartTime + TickMs
    /\ scryfallModule = "limited"
    /\ ClientInit({}, 0)
    /\ CacheInit(Loaders, [index : {Absent, Present(0, Stringify(OldIndex))}, tags : {Absent}])
    /\ tool = NoTool

RaceNext ==
    \/ \E l \in Loaders : StartCall(l, LoadCall(FALSE, NoTtl))
    \/ \E l \in Loaders : ReadDone(l)
    \/ \E l \in Loaders, page \in {LastPage, GrownPage} : BuildPage(l, page)
    \/ \E l \in Loaders : WriteOpen(l)
    \/ \E l \in Loaders, ok \in BOOLEAN : WriteDone(l, ok)
    \/ Tick

\* two non-forced loads of the index over an absent or stale file, the catalog
\* gaining an entry at any time
SpecRace == InitRace /\ [][RaceNext]_vars

InitTags ==
    /\ now = StartTime
    /\ horizon = StartTime
    /\ scryfallModule = "limited"
    /\ ClientInit({}, 0)
    /\ CacheInit({1}, NoFiles)
    /\ tool = NoTool

TagsNext ==
    \/ \E l \in Loaders, c \in {FetchTagsCall, RefreshTagsCall} : StartCall(l, c)
    \/ \E l \in Loaders : ReadDone(l)
    \/ \E l \in Loaders, doc \in TagDocs : BuildDoc(l, doc)
    \/ \E l \in Loaders, err \in BuildErrors : BuildFail(l, err)
    \/ \E l \in Loaders : WriteOpen(l)
    \/ \E l \in Loaders, ok \in BOOLEAN : WriteDone(l, ok)
    \/ \E l \in Loaders, ok \in BOOLEAN : Rewrite(l, ok)

\* one fetch or refresh of the tags, the tag page holding any anchors
SpecTags == InitTags /\ [][TagsNext]_vars

\* one turn of the loop of the tool: getCardNamed settles with outcome o
ToolResolve(o) ==
    /\ tool.pc = "resolving"
    /\ Len(tool.tried) < Len(tool.names)
    /\ tool' = AfterName(tool, o)
    /\ UNCHANGED <<now, horizon, clientVars, cacheVars>>

\* if (uniqOids.length === 0) return "No oracle IDs resolved from names"
ToolNothing ==
    /\ NamesDone(tool)
    /\ Uniq(tool.oracleIds) = <<>>
    /\ tool' = [tool EXCEPT !.pc = "done", !.out = [kind |-> "text"]]
    /\ UNCHANGED <<now, horizon, clientVars, cacheVars>>

\* mapRes = await lookupCsbIdsByOracle(uniqOids): the call begins
ToolLookup(l) ==
    /\ NamesDone(tool)
    /\ Uniq(tool.oracleIds) # <<>>
    /\ StartCall(l, LookupCall(Uniq(tool.oracleIds)))

\* the lookup has settled: its error is thrown, an empty `found` returns the
\* mapping with results null, otherwise CSB.findMyCombos is called
ToolMapped(l) ==
    /\ NamesDone(tool)
    /\ lpc[l] = "done"
    /\ tool' = IF ret[l].kind = "error"
               THEN [tool EXCEPT !.pc = "done", !.out = ret[l]]
               ELSE IF DOMAIN ret[l].value.found = {}
               THEN [tool EXCEPT !.pc = "done", !.mapping = ret[l],
                                 !.out = [kind |-> "mapping", value |-> ret[l].value]]
               ELSE [tool EXCEPT !.pc = "combos", !.mapping = ret[l]]
    /\ UNCHANGED <<now, horizon, clientVars, cacheVars>>

\* CSB.findMyCombos settles
ToolCombos(ok) ==
    /\ tool.pc = "combos"
    /\ tool' = [tool EXCEPT !.pc = "done",
                            !.out = IF ok THEN [kind |-> "combos", value |-> tool.mapping.value]
                                    ELSE [kind |-> "error", error |-> StatusError(500, "")]]
    /\ UNCHANGED <<now, horizon, clientVars, cacheVars>>

InitNames ==
    /\ now = StartTime
    /\ horizon = StartTime
    /\ scryfallModule = "limited"
    /\ ClientInit({}, 0)
    /\ CacheInit({1}, [index : {Absent, Present(TickMs, Stringify(OldIndex))}, tags : {Absent}])
    /\ tool \in {StartTool(ns) : ns \in NameLists}

NamesNext ==
    \/ \E o \in NameOutcomes : ToolResolve(o)
    \/ ToolNothing
    \/ \E l \in Loaders : ToolLookup(l)
    \/ \E l \in Loaders : ReadDone(l)
    \/ \E l \in Loaders : BuildPage(l, LastPage)
    \/ \E l \in Loaders, err \in BuildErrors : BuildFail(l, err)
    \/ \E l \in Loaders : WriteOpen(l)
    \/ \E l \in Loaders, ok \in BOOLEAN : WriteDone(l, ok)
    \/ \E l \in Loaders : ToolMapped(l)
    \/ \E ok \in BOOLEAN : ToolCombos(ok)

\* one run of the find-combos-by-names tool
SpecNames == InitNames /\ [][NamesNext]_vars

InitWrites ==
    /\ now = StartTime
    /\ horizon = StartTime
    /\ scryfallModule = "limited"
    /\ ClientInit({}, 0)
    /\ CacheInit({1}, FilesFound)
    /\ tool = NoTool

WritesNext ==
    \/ \E l \in Loaders, c \in {LoadCall(FALSE, NoTtl), FetchTagsCall, RefreshTagsCall,
                                BuildIndexCall} : StartCall(l, c)
    \/ \E l \in Loaders : ReadDone(l)
    \/ \E l \in Loaders, page \in {FirstPage, LastPage} : BuildPage(l, page)
    \/ \E l \in Loaders, doc \in Docs : BuildDoc(l, doc)
    \/ \E l \in Loaders, err \in BuildErrors : BuildFail(l, err)
    \/ \E l \in Loaders : WriteOpen(l)
    \/ \E l \in Loaders, ok \in BOOLEAN : WriteDone(l, ok)
    \/ \E l \in Loaders, ok \in BOOLEAN : Rewrite(l, ok)

\* one call of an operation that computes its result afresh and writes it
SpecWrites == InitWrites /\ [][WritesNext]_vars

\* no call on the caches is in progress
NoneRunning == \A m \in Loaders : lpc[m] \in {"idle", "done", "absent"}

InitRebuild ==
    /\ now = StartTime
    /\ horizon = StartTime + CacheTicks * TickMs
    /\ scryfallModule = "limited"
    /\ ClientInit({}, 0)
    /\ CacheInit(Loaders, NoFiles)
    /\ tool = NoTool

RebuildNext ==
    \/ \E c \in {LoadCall(FALSE, NoTtl), LookupCall(<<2, 3>>)} : NoneRunning /\ StartCall(1, c)
    \/ NoneRunning /\ StartCall(2, BuildIndexCall)
    \/ \E l \in Loaders : ReadDone(l)
    \/ \E l \in Loaders, page \in {LastPage, GrownPage} : BuildPage(l, page)
    \/ \E l \in Loaders : WriteOpen(l)
    \/ \E l \in Loaders, ok \in BOOLEAN : WriteDone(l, ok)
    \/ \E l \in Loaders, ok \in BOOLEAN : Rewrite(l, ok)
    \/ CallAgain(1)
    \/ Tick

\* loads and lookups, one run of the build-index tool among them, one call at a
\* time, the catalog gaining an entry at any time
SpecRebuild == InitRebuild /\ [][RebuildNext]_vars

InitAgain ==
    /\ now = StartTime
    /\ horizon = StartTime + CacheTicks * TickMs
    /\ scryfallModule = "limited"
    /\ ClientInit({}, 0)
    /\ CacheInit({1}, [index : {Absent, Present(0, Stringify(OldIndex)),
                                Present(TickMs, Stringify(OldIndex))}, tags : {Absent}])
    /\ tool = NoTool

AgainNext ==
    \/ \E c \in {LoadCall(FALSE, NoTtl), LoadCall(TRUE, NoTtl), LookupCall(<<1, 2>>)} :
          StartCall(1, c)
    \/ ReadDone(1)
    \/ \E page \in {FirstPage, LastPage} : BuildPage(1, page)
    \/ \E err \in BuildErrors : BuildFail(1, err)
    \/ WriteOpen(1)
    \/ \E ok \in BOOLEAN : WriteDone(1, ok)
    \/ CallAgain(1)
    \/ Tick

\* loads and lookups of the index one after the other, forced or not, any
\* request of a rebuild failing
SpecAgain == InitAgain /\ [][AgainNext]_vars

InitBuild ==
    /\ now = StartTime
    /\ horizon = StartTime
    /\ scryfallModule = "limited"
    /\ ClientInit({}, 0)
    /\ CacheInit({1}, NoFiles)
    /\ tool = NoTool

BuildNext ==
    \/ \E l \in Loaders : StartCall(l, LoadCall(TRUE, NoTtl))
    \/ \E l \in Loaders, page \in Pages : BuildPage(l, page)
    \/ \E l \in Loaders, err \in BuildErrors : BuildFail(l, err)
    \/ \E l \in Loaders : WriteOpen(l)
    \/ \E l \in Loaders, ok \in BOOLEAN : WriteDone(l, ok)

\* one rebuild of the index, the catalog answering with any pages
SpecBuild == InitBuild /\ [][BuildNext]_vars

\* the same, every request being answered or failing in the end
SpecBuildFair == SpecBuild /\ WF_vars(BuildNext)

\* the lists of source keys a lookup is called with
IdLists == UNION {[1..n -> Keys] : n \in 0..MaxIds}

\* the mappings an index file may hold
IndexMaps == UNION {[D -> Keys] : D \in SUBSET Keys}

\* a fresh index file holding any mapping
IndexFiles ==
    {[k \in Caches |-> IF k = "index"
                       THEN Present(StartTime, Stringify(Index(0, Cardinality(DOMAIN map), map)))
                       ELSE Absent] : map \in IndexMaps}

InitLookup ==
    /\ now = StartTime
    /\ horizon = StartTime
    /\ scryfallModule = "limited"
    /\ ClientInit({}, 0)
    /\ CacheInit({1}, IndexFiles)
    /\ tool = NoTool

LookupNext ==
    \/ \E l \in Loaders, ids \in IdLists : StartCall(l, LookupCall(ids))
    \/ \E l \in Loaders : ReadDone(l)

\* one lookup of any list of keys against any index
SpecLookup == InitLookup /\ [][LookupNext]_vars

\* ------------------------------------------------------------ properties

\* the upstream client a request function belongs to
ClientOf(f) == IF f \in {"csb.getJson", "csb.postText"} THEN "csb" ELSE "scryfall"

\* the calls made through the retrying request functions of csb.ts and of the
\* limited revision of the card-database client
PerformRequest(c) ==
    /\ pc[c] # "idle"
    /\ (ClientOf(fn[c]) = "csb" \/ scryfallModule = "limited")

\* number of entries of caller c in a log of <<caller, attempt>> pairs
CountOf(log, c) == Cardinality({i \in 1..Len(log) : log[i][1] = c})

Started(c) == CountOf(arrivals[ClientOf(fn[c])], c)
Granted(c) == CountOf(grants[ClientOf(fn[c])], c)

\* C1: the values written to lastStart of one governor never decrease, and each
\* differs from the value written before it by at least intervalMs.
C1_DispatchSpacing ==
    \A g \in Governors :
        Len(grants[g]) >= 2 =>
            /\ lastStart[g] >= prevStart[g]
            /\ lastStart[g] - prevStart[g] >= intervalMs

\* a governor has dispatched three times, for two callers and one retry, the last
\* two after a sleep for the slot
C1_Witness ==
    \E g \in Governors :
        /\ Len(grants[g]) >= 3
        /\ \E i \in 1..Len(grants[g]) : grants[g][i][2] > 0
        /\ \E i, j \in 1..Len(grants[g]) : grants[g][i][1] # grants[g][j][1]
        /\ lastStart[g] - prevStart[g] = intervalMs

\* C2: on every governor the order of the grants (lastStart writes) is the order
\* of the acquireSlot calls: the grant log is a prefix of the arrival log.
C2_FifoGrants ==
    \A g \in Governors :
        /\ Len(grants[g]) <= Len(arrivals[g])
        /\ \A i \in 1..Len(grants[g]) : grants[g][i] = arrivals[g][i]

\* two callers and then the retry of one of them called acquireSlot on one
\* governor, the retry while the other caller's ticket was pending, and all three
\* were granted
C2_Witness ==
    \E g \in Governors, c \in Callers :
        /\ Len(arrivals[g]) = 3
        /\ arrivals[g][1][1] # arrivals[g][2][1]
        /\ arrivals[g][3] = <<c, 1>>
        /\ Len(grants[g]) = 3
        /\ pc[c] = "acquired"

\* the callers between being granted their turn and releasing their ticket
InCriticalSection(g) ==
    {c \in Callers : PerformRequest(c) /\ ClientOf(fn[c]) = g /\ pc[c] = "slotSleep"}

\* C3: at most one caller per governor is between its grant and its release.
C3_OneInSlotAcquisition ==
    \A g \in Governors : Cardinality(InCriticalSection(g)) <= 1

\* one caller sleeps for its slot while another waits on the sleeper's ticket
C3_Witness ==
    \E g \in Governors, c, d \in Callers :
        /\ c # d
        /\ InCriticalSection(g) = {c}
        /\ pc[d] = "awaitPrev"
        /\ ClientOf(fn[d]) = g
        /\ prev[d] = mine[c]

\* C4 (state part): a call makes at most maxRetries+1 fetches, every fetch after
\* a completed acquireSlot of its own, and never has two attempts outstanding.
C4_AttemptBounds ==
    \A c \in Callers :
        PerformRequest(c) =>
            /\ issued[c] <= maxRetries + 1
            /\ issued[c] <= Granted(c)
            /\ Granted(c) <= issued[c] + 1
            /\ Started(c) <= received[c] + 1
            /\ Granted(c) <= Started(c)

\* C4 (step part): a call's next acquireSlot starts only when the response of
\* its previous attempt has arrived and its back-off timer has fired.
C4_NextAttemptStep ==
    \A c \in Callers :
        (pc[c] # "idle" /\ PerformRequest(c)' /\ Started(c)' > Started(c)) =>
            /\ pc[c] = "backoff"
            /\ now >= wakeAt[c]
            /\ received[c] = Started(c)
            /\ issued[c] = Started(c)

\* C4: a performRequest call issues at most maxRetries+1 network calls, each
\* after its own slot acquisition, and attempt k+1 starts only after the response
\* and the back-off sleep of attempt k.
C4_AttemptDiscipline == []C4_AttemptBounds /\ [][C4_NextAttemptStep]_vars

\* a call that has used its whole budget: maxRetries+1 fetches, all answered
C4_Witness ==
    \E c \in Callers :
        /\ PerformRequest(c)
        /\ issued[c] = maxRetries + 1
        /\ received[c] = maxRetries + 1
        /\ Started(c) = maxRetries + 1

\* the calls that have received maxRetries+1 consecutive 429 responses
Exhausted(c) == PerformRequest(c) /\ seen429[c] = maxRetries + 1

\* C5 as stated: after maxRetries+1 consecutive 429 responses the call fails with
\* the generic error raised after the retry loop, and fetches no more.
C5_ExhaustedIsGeneric ==
    \A c \in Callers :
        Exhausted(c) =>
            /\ pc[c] = "done"
            /\ outcome[c] = ExhaustedError
            /\ issued[c] = maxRetries + 1

\* C5 as amended: after maxRetries+1 consecutive 429 responses the call fails
\* with the status-carrying error for status 429, and fetches no more.
C5_ExhaustedIsStatus429 ==
    \A c \in Callers :
        Exhausted(c) =>
            /\ pc[c] = "done"
            /\ outcome[c].kind = "status"
            /\ outcome[c].status = 429
            /\ issued[c] = maxRetries + 1

\* a call has received maxRetries+1 consecutive 429 responses
C5_Witness == \E c \in Callers : Exhausted(c)

\* C6 (state part): only a 429 is followed by a back-off; a call that failed on
\* another status carries status, status text and body text, has fetched exactly
\* once per attempt and has no timer pending.
C6_FailedState ==
    \A c \in Callers :
        PerformRequest(c) =>
            /\ pc[c] = "backoff" => res[c].status = 429
            /\ (pc[c] = "done" /\ outcome[c].kind = "status" /\ outcome[c].status # 429) =>
                  /\ ~Ok(outcome[c].status)
                  /\ outcome[c].statusText = StatusText(outcome[c].status)
                  /\ outcome[c].text \in {"", "body"}
                  /\ issued[c] = attempt[c] + 1
                  /\ sleepMs[c] = 0
                  /\ seen429[c] = 0

\* C6 (step part): a failed call takes no further step.
C6_FailedStep ==
    \A c \in Callers :
        (PerformRequest(c) /\ pc[c] = "done" /\ outcome[c].kind = "status") =>
            /\ pc'[c] = "done"
            /\ outcome'[c] = outcome[c]
            /\ issued'[c] = issued[c]
            /\ sleepMs'[c] = sleepMs[c]
            /\ Started(c)' = Started(c)

\* C6: a non-success status other than 429 fails the call at once with the
\* status-carrying error; no back-off, slot acquisition or fetch follows.
C6_NoRetryOnOtherStatus == []C6_FailedState /\ [][C6_FailedStep]_vars

\* a call failed on status 500 on its first attempt, its retry budget untouched
C6_Witness ==
    \E c \in Callers :
        /\ PerformRequest(c)
        /\ pc[c] = "done"
        /\ outcome[c].kind = "status"
        /\ outcome[c].status = 500
        /\ attempt[c] = 0

\* C7 as stated: a 429 with a Retry-After of R seconds, R any non-negative
\* number, that is retried is followed by a back-off of exactly R*1000 ms.
C7_HintIsExact ==
    \A c \in Callers :
        (PerformRequest(c) /\ pc[c] = "backoff" /\ res[c].retryAfter # NoHeader) =>
            sleepMs[c] = res[c].retryAfter * 1000

\* C7 as amended: the same for every positive R.
C7_PositiveHintIsExact ==
    \A c \in Callers :
        (PerformRequest(c) /\ pc[c] = "backoff" /\ res[c].retryAfter # NoHeader
            /\ res[c].retryAfter > 0) =>
            /\ sleepMs[c] = res[c].retryAfter * 1000
            /\ wakeAt[c] - sleepMs[c] <= now

\* a call backs off on a hint of one second where the exponential value differs
C7_Witness ==
    \E c \in Callers :
        /\ PerformRequest(c)
        /\ pc[c] = "backoff"
        /\ res[c].retryAfter = 1
        /\ retryBaseMs * 2^attempt[c] # 1000

\* C8: a 429 without hint on attempt k < maxRetries is followed by a back-off of
\* retryBaseMs * 2^k.
C8_ExponentialBackoff ==
    \A c \in Callers :
        (PerformRequest(c) /\ pc[c] = "backoff" /\ res[c].retryAfter = NoHeader) =>
            /\ attempt[c] < maxRetries
            /\ sleepMs[c] = retryBaseMs * 2^attempt[c]

\* a call backs off without hint on its third attempt, for four times the base
C8_Witness ==
    \E c \in Callers :
        /\ PerformRequest(c)
        /\ pc[c] = "backoff"
        /\ res[c].retryAfter = NoHeader
        /\ attempt[c] = 2
        /\ sleepMs[c] = 4 * retryBaseMs

\* C9 as stated: every fetch of every client operation follows a completed slot
\* acquisition of its own.
C9_EveryFetchAfterSlot ==
    \A c \in Callers : issued[c] <= Granted(c)

\* the governor state of the clients other than the one caller c uses
OthersUnchanged(c) ==
    \A g \in Governors \ {ClientOf(fn'[c])} :
        /\ lastStart'[g] = lastStart[g]
        /\ prevStart'[g] = prevStart[g]
        /\ queue'[g] = queue[g]
        /\ resolved'[g] = resolved[g]
        /\ arrivals'[g] = arrivals[g]
        /\ grants'[g] = grants[g]

\* C10 (step part): a step of a caller leaves the other client's governor alone.
C10_FrameStep == \A c \in Callers : pc'[c] # pc[c] => OthersUnchanged(c)

\* C10 (state part): a caller sleeps for a slot only behind a dispatch of its own
\* governor, and for that governor's lastStart + intervalMs.
C10_OwnDelay ==
    \A c \in Callers :
        (PerformRequest(c) /\ pc[c] = "slotSleep") =>
            /\ Len(grants[ClientOf(fn[c])]) >= 1
            /\ wakeAt[c] = lastStart[ClientOf(fn[c])] + intervalMs

\* C10: the two governors are independent.
C10_GovernorsIndependent == []C10_OwnDelay /\ [][C10_FrameStep]_vars

\* both governors have dispatched, and a caller of one is granted without sleeping
\* less than intervalMs after the other governor's dispatch
C10_Witness ==
    \E c \in Callers, g \in Governors :
        /\ PerformRequest(c)
        /\ ClientOf(fn[c]) # g
        /\ pc[c] = "acquired"
        /\ Len(grants[g]) >= 1
        /\ Len(grants[ClientOf(fn[c])]) = 1
        /\ lastStart[ClientOf(fn[c])] - lastStart[g] < intervalMs
        /\ lastStart[ClientOf(fn[c])] > lastStart[g]

\* where getJson stands after receiving the statuses of log, from attempt k on
RECURSIVE GetJsonAfter(_, _)
GetJsonAfter(log, k) ==
    IF log = <<>> THEN [attempt |-> k, status |-> 0, kind |-> "pending"]
    ELSE IF Head(log) = 429 /\ k < maxRetries THEN GetJsonAfter(Tail(log), k + 1)
    ELSE [attempt |-> k, status |-> Head(log),
          kind |-> IF Ok(Head(log)) THEN "json" ELSE "status"]

\* where a call stands: the attempt it is on (a call backing off is on its way to
\* the next one) and its outcome
PositionOf(c) ==
    [attempt |-> IF pc[c] = "backoff" THEN attempt[c] + 1 ELSE attempt[c],
     status |-> IF outcome[c].kind \in {"json", "status"} THEN statusLog[c][Len(statusLog[c])]
                ELSE 0,
     kind |-> outcome[c].kind]

\* the calls to the combo database, of either kind
CsbCalls == {c \in Callers : pc[c] \notin {"idle", "absent"} /\ ClientOf(fn[c]) = "csb"}

\* C11 (state part): getJson and postText calls to the combo database share one
\* arrival log, one grant log and one lastStart: grants are FIFO and at least
\* intervalMs apart across both kinds, every fetch of either kind follows a grant
\* of that log, and a postText call stands where getJson stands after the same
\* sequence of response statuses.
C11_PostTextState ==
    /\ Len(grants["csb"]) <= Len(arrivals["csb"])
    /\ \A i \in 1..Len(grants["csb"]) : grants["csb"][i] = arrivals["csb"][i]
    /\ Len(grants["csb"]) >= 2 => lastStart["csb"] - prevStart["csb"] >= intervalMs
    /\ \A c \in CsbCalls :
          /\ issued[c] <= Granted(c)
          /\ Started(c) = attempt[c] + 1
          /\ PositionOf(c) = GetJsonAfter(statusLog[c], 0)
          /\ (outcome[c].kind = "status") =>
                outcome[c] = StatusError(outcome[c].status, outcome[c].text)

\* C11 (step part): a postText call that backs off sleeps for what getJson sleeps
\* on the same response and attempt.
C11_PostTextStep ==
    \A c \in Callers, h \in RetryAfterHeaders :
        (fn[c] = "csb.postText" /\ pc[c] = "fetching" /\ pc'[c] = "backoff"
            /\ res'[c].retryAfter = h) =>
            /\ sleepMs'[c] = (IF h # NoHeader /\ h > 0 THEN h * 1000
                              ELSE retryBaseMs * 2^attempt[c])
            /\ wakeAt'[c] = now + sleepMs'[c]

\* C11: postText shares the governor state of getJson of the combo database and
\* follows the same retry and error rules.
C11_PostTextSameContract == []C11_PostTextState /\ [][C11_PostTextStep]_vars

\* a getJson call and a postText call interleave on the combo database's governor:
\* the getJson call was dispatched first, the postText call slept for its slot, was
\* answered 429, backed off, was dispatched again intervalMs later and succeeded
C11_Witness ==
    \E c, d \in Callers :
        /\ fn[c] = "csb.getJson" /\ fn[d] = "csb.postText"
        /\ c \in CsbCalls /\ d \in CsbCalls
        /\ Len(grants["csb"]) = 3
        /\ grants["csb"][1] = <<c, 0>>
        /\ grants["csb"][2] = <<d, 0>>
        /\ grants["csb"][3] = <<d, 1>>
        /\ statusLog[d] = <<429, 200>>
        /\ pc[d] = "done"
        /\ outcome[d].kind = "json"

\* the calls of an operation that have returned
Returned(l, op) == lpc[l] = "done" /\ call[l].op = op

\* the members of a sequence
Range(seq) == {seq[i] : i \in 1..Len(seq)}

\* C12: a lookup that returned has put every input id in exactly one of found and
\* missing; found is the index mapping restricted to the input ids; missing is the
\* input list with the ids of the index mapping left out, order kept.
C12_LookupPartitions ==
    \A l \in Loaders :
        (Returned(l, "lookup") /\ ret[l].kind = "lookup") =>
            LET ids == call[l].ids
                map == (CHOOSE m \in memCache["index"] : TRUE).data.oracleToId
                r == ret[l].value
            IN  /\ \A i \in 1..Len(ids) : (ids[i] \in DOMAIN r.found) # (ids[i] \in Range(r.missing))
                /\ DOMAIN r.found = Range(ids) \cap DOMAIN map
                /\ \A k \in DOMAIN r.found : r.found[k] = map[k]
                /\ r.missing = SelectSeq(ids, LAMBDA x : x \notin DOMAIN map)

\* the lookup of keys 1, 2, 3 against the index {1 -> 1, 3 -> 3} returned
\* found = {1 -> 1, 3 -> 3} and missing = <<2>>
C12_Witness ==
    \E l \in Loaders :
        /\ Returned(l, "lookup")
        /\ call[l].ids = <<1, 2, 3>>
        /\ \E m \in memCache["index"] : m.data.oracleToId = [k \in {1, 3} |-> k]
        /\ ret[l].kind = "lookup"
        /\ DOMAIN ret[l].value.found = {1, 3}
        /\ ret[l].value.found[1] = 1 /\ ret[l].value.found[3] = 3
        /\ ret[l].value.missing = <<2>>

\* the calls that have begun
Begun(l) == lpc[l] \notin {"idle", "absent"}

\* loader l called load / fetchTaggerTags / lookup on cache k
LoadsFrom(l, k) == Begun(l) /\ call[l].cache = k /\ call[l].op # "read"

\* number of rebuilds loader l has completed
Builds(l) == Cardinality({i \in 1..Len(trail[l]) : trail[l][i] = "build"})

\* first a non-forced load of the index returned after a rebuild, then a second
\* non-forced load began, less than its ttl after the first began, and no other
\* call has loaded the index
TwoLoads(first, second) ==
    /\ first # second
    /\ Returned(first, "load") /\ ~call[first].force
    /\ Builds(first) = 1
    /\ Begun(second) /\ call[second].op = "load" /\ ~call[second].force
    /\ first \in after[second]
    /\ callAt[second] - callAt[first] < TtlOf(call[second])
    /\ \A m \in Loaders \ {first, second} : ~LoadsFrom(m, "index")

\* C13: the second of two such loads returned at once the index the first had put
\* in memory, without a file read and without a request; one rebuild ran in all.
\* (The age of the copy in memory counts from the moment the first call began.)
C13_SecondLoadFromMemory ==
    \A first, second \in Loaders :
        TwoLoads(first, second) =>
            /\ lpc[second] = "done"
            /\ trail[second] = <<"memory">>
            /\ requests[second] = <<>>
            /\ served[second] = <<>>
            /\ ret[second] = ret[first]
            /\ ret[second].kind = "data"
            /\ \E m \in memCache["index"] : m.data = ret[second].value
            /\ Builds(first) + Builds(second) = 1

\* the second load began a tick after the first had rebuilt and returned
C13_Witness ==
    \E first, second \in Loaders :
        /\ TwoLoads(first, second)
        /\ callAt[second] = callAt[first] + TickMs
        /\ Len(requests[first]) = 1

\* C14: a forced call (load with force, refreshTaggerTags) never takes the memory
\* tier or the disk tier: it has sent a request, and what it returns is what its
\* own rebuild produced.
C14_ForcedAlwaysRebuilds ==
    \A l \in Loaders :
        (Begun(l) /\ call[l].force) =>
            /\ \A i \in 1..Len(trail[l]) : trail[l][i] \notin {"memory", "read", "adopt"}
            /\ Len(requests[l]) >= 1
            /\ lpc[l] \notin {"reading"}
            /\ (lpc[l] = "done" /\ ret[l].kind = "data") =>
                  /\ Builds(l) = 1
                  /\ ret[l].value \in built[l]
            /\ (lpc[l] = "done" /\ ret[l].kind = "refreshed") =>
                  /\ Builds(l) = 1
                  /\ \E d \in built[l] : ret[l].value = [art |-> Len(d.art), function |-> Len(d.function)]

\* a forced load began while the copy in memory and the file were both fresh (a
\* load had just rebuilt and written them) and returned an index of its own
C14_Witness ==
    \E l, m \in Loaders :
        /\ call[l] = LoadCall(TRUE, NoTtl)
        /\ m \in after[l]
        /\ call[m].cache = "index"
        /\ Builds(m) = 1
        /\ trail[m][Len(trail[m])] = "write"
        /\ callAt[l] - callAt[m] < DEFAULT_TTL_MS
        /\ file["index"].state = "present"
        /\ callAt[l] - file["index"].mtime < DEFAULT_TTL_MS
        /\ lpc[l] = "done"
        /\ ret[l].kind = "data"
        /\ ret[l].value \in built[l]

\* the cache file of cache k can be read and parsed
Readable(k) == file[k].state = "present" /\ file[k].text.kind = "json"

\* the last tier loader l went through
LastOf(seq) == IF seq = <<>> THEN "none" ELSE seq[Len(seq)]

\* C15 (step part): when the file read of a non-forced load completes: if the file
\* is readable and its mtime is less than ttl before the time of the call, its
\* content becomes the copy in memory, stamped with the mtime, and is returned with
\* no request made; otherwise (older, absent, unreadable, malformed) the rebuild
\* begins with its first request and memory is left alone.
C15_DiskTierStep ==
    \A l \in Loaders :
        (lpc[l] = "reading" /\ call[l].op # "read" /\ lpc'[l] # "reading") =>
            LET k == call[l].cache
            IN  IF Readable(k) /\ callAt[l] - file[k].mtime < TtlOf(call[l])
                THEN /\ memCache'[k] = {[at |-> file[k].mtime, data |-> file[k].text.value]}
                     /\ lpc'[l] = "done"
                     /\ call[l].op # "lookup" =>
                           ret'[l] = [kind |-> "data", value |-> file[k].text.value]
                     /\ requests'[l] = <<>>
                     /\ file' = file
                ELSE /\ lpc'[l] = "building"
                     /\ requests'[l] = <<0>>
                     /\ memCache' = memCache
                     /\ ret'[l] = NoRet

\* C15 (state part): a non-forced load reads the file only when memory gave
\* nothing, and a call that adopted the file has made no request.
C15_DiskTierState ==
    \A l \in Loaders :
        /\ lpc[l] = "reading" => ~call[l].force
        /\ LastOf(trail[l]) = "adopt" => requests[l] = <<>> /\ Builds(l) = 0

\* C15: the disk tier of a non-forced load goes by the file's modification time.
C15_DiskTier == []C15_DiskTierState /\ [][C15_DiskTierStep]_vars

\* a load adopted a readable file half a ttl old; it made no request
C15_Witness ==
    \E l \in Loaders :
        /\ Returned(l, "load")
        /\ trail[l] = <<"read", "adopt">>
        /\ callAt[l] - file["index"].mtime = TickMs
        /\ memCache["index"] = {[at |-> file["index"].mtime, data |-> OldIndex]}
        /\ ret[l] = [kind |-> "data", value |-> OldIndex]
        /\ requests[l] = <<>>

\* C16 (step part): when the write after a rebuild fails, load and
\* fetchTaggerTags return the rebuilt data, lookup returns its partition, the
\* copy in memory is the rebuilt data and the file is as it was.
C16_WriteFailureStep ==
    \A l \in Loaders :
        (lpc[l] \in {"writing", "flushing"} /\ LastOf(trail'[l]) = "writeFailed"
            /\ call[l].op # "refreshTags") =>
            /\ lpc'[l] = "done"
            /\ ret'[l].kind \in {"data", "lookup"}
            /\ call[l].op # "lookup" => ret'[l].value \in built[l]
            /\ call[l].op = "lookup" => ret'[l].kind = "lookup"
            /\ \E d \in built[l] : memCache'[call[l].cache] = {[at |-> callAt[l], data |-> d]}
            /\ file' = file

\* C16 (state part): no call of load, lookup or fetchTaggerTags whose write failed
\* has returned an error.
C16_WriteFailureState ==
    \A l \in Loaders :
        (lpc[l] = "done" /\ call[l].op \in {"load", "lookup", "fetchTags"}
            /\ LastOf(trail[l]) = "writeFailed") => ret[l].kind # "error"

\* C16: a failure to persist the rebuilt data is never raised by load or lookup.
C16_WriteFailureSwallowed == []C16_WriteFailureState /\ [][C16_WriteFailureStep]_vars

\* a lookup whose load rebuilt the index and could not write it returned its
\* partition; no file exists
C16_Witness ==
    \E l \in Loaders :
        /\ Returned(l, "lookup")
        /\ trail[l] = <<"read", "build", "writeFailed">>
        /\ file["index"].state = "absent"
        /\ ret[l].kind = "lookup"
        /\ ret[l].value.missing = <<2>>
        /\ memCache["index"] # {}

\* C17 (state part): a call whose rebuild had a request fail has returned that
\* error: not data, not a partition; it completed no rebuild.
C17_BuildFailureState ==
    \A l \in Loaders :
        LastOf(trail[l]) = "buildFailed" =>
            /\ lpc[l] = "done"
            /\ ret[l].kind = "error"
            /\ ret[l].error \in BuildErrors
            /\ Builds(l) = 0
            /\ built[l] = {}

\* C17 (step part): the step on which the request fails leaves the copy in memory
\* and the file as they were.
C17_BuildFailureStep ==
    \A l \in Loaders :
        (LastOf(trail'[l]) = "buildFailed" /\ LastOf(trail[l]) # "buildFailed") =>
            memCache' = memCache /\ file' = file

\* C17: a failure while rebuilding propagates to the caller of load and of lookup.
C17_BuildFailurePropagates == []C17_BuildFailureState /\ [][C17_BuildFailureStep]_vars

\* a lookup failed on the second page of the catalog, with entries of the first
\* page accumulated and a stale index file on disk
C17_Witness ==
    \E l \in Loaders :
        /\ Returned(l, "lookup")
        /\ LastOf(trail[l]) = "buildFailed"
        /\ served[l] = <<FirstPage>>
        /\ DOMAIN acc[l] = {1}
        /\ file["index"] = Present(0, Stringify(OldIndex))
        /\ ret[l].kind = "error"
        /\ ret[l].error = StatusError(429, "")

\* C18: when readCsbIndex / readTaggerCache completes it returns null if the file
\* is absent, unreadable or not JSON, and otherwise the parsed content with the
\* file's mtime; it raises nothing and leaves memory and file as they were.
C18_ReadStep ==
    \A l \in Loaders :
        (lpc[l] = "reading" /\ call[l].op = "read" /\ lpc'[l] # "reading") =>
            LET k == call[l].cache
            IN  /\ lpc'[l] = "done"
                /\ ret'[l].kind = "read"
                /\ ret'[l].value =
                      (IF file[k].state \in {"absent", "unreadable"} THEN {}
                       ELSE IF file[k].text.kind = "garbage" THEN {}
                       ELSE {[at |-> file[k].mtime, data |-> file[k].text.value]})
                /\ memCache' = memCache
                /\ file' = file

\* C18: read never raises and changes nothing.
C18_ReadNeverRaises == [][C18_ReadStep]_vars

\* reads have returned null on a file that is not JSON
C18_Witness ==
    \E l \in Loaders :
        /\ Returned(l, "read")
        /\ file[call[l].cache].state = "present"
        /\ file[call[l].cache].text = Garbage
        /\ ret[l] = [kind |-> "read", value |-> {}]

\* the entries of the pages served, in page order
RECURSIVE EntriesOf(_)
EntriesOf(pages) ==
    IF pages = <<>> THEN <<>>
    ELSE (IF Head(pages).isArray THEN Head(pages).results ELSE <<>>) \o EntriesOf(Tail(pages))

\* the count of the last page that reported one, 0 if none did
RECURSIVE LastCount(_)
LastCount(pages) ==
    IF pages = <<>> THEN 0
    ELSE IF pages[Len(pages)].count # NoCount THEN pages[Len(pages)].count
    ELSE LastCount(SubSeq(pages, 1, Len(pages) - 1))

\* C19: the index a rebuild produces maps exactly the keys of the served entries
\* that have a string key and a numeric value, each to the value of its first such
\* occurrence in page order; its total is the count of the last page fetched when
\* that page reports one (and the last count reported before it otherwise); and
\* this index is what the load returns.
C19_BuildMapping ==
    \A l \in Loaders : \A d \in built[l] :
        LET all == EntriesOf(served[l])
            kept == {i \in 1..Len(all) :
                        all[i].oracleId.type = "string" /\ all[i].id.type = "number"}
            last == served[l][Len(served[l])]
        IN  /\ DOMAIN d.oracleToId = {all[i].oracleId.val : i \in kept}
            /\ \A i \in kept :
                  (\A j \in kept : j < i => all[j].oracleId.val # all[i].oracleId.val)
                      => d.oracleToId[all[i].oracleId.val] = all[i].id.val
            /\ last.count # NoCount => d.total = last.count
            /\ d.total = LastCount(served[l])
            /\ (Returned(l, "load") /\ ret[l].kind = "data") => ret[l].value = d

\* a rebuild over three pages returned: key 1 came with value 2 on the first page
\* and with value 1 on the second, key 2 with a string value on the first page and
\* with value 3 on the last, whose count is 3
C19_Witness ==
    \E l \in Loaders :
        /\ Returned(l, "load")
        /\ Len(served[l]) = 3
        /\ served[l][1].results = <<Entry(Str(1), Num(2))>>
        /\ served[l][2].results = <<Entry(Str(2), Str(3))>>
        /\ served[l][3].results = <<Entry(Str(1), Num(1))>>
        /\ served[l][1].count = 2
        /\ served[l][3].count = 3
        /\ ret[l].kind = "data"
        /\ ret[l].value.oracleToId = [k \in {1} |-> 2]
        /\ ret[l].value.total = 3

\* a page that ends the pagination
EndsPaging(page) ==
    ~page.next \/ (IF page.isArray THEN Len(page.results) ELSE 0) = 0

\* C20 (state part): the offsets requested are 0, 100, 200, ... one each; while
\* the rebuild runs exactly one request is unanswered, and none once it has
\* produced its index; a page that ends the pagination is the last one received
\* and the rebuild produced its index on it; the last page of a completed rebuild
\* is such a page.
C20_PaginationState ==
    \A l \in Loaders :
        /\ \A i \in 1..Len(requests[l]) : requests[l][i] = (i - 1) * 100
        /\ lpc[l] = "building" => Len(requests[l]) = Len(served[l]) + 1
        /\ \A i \in 1..Len(served[l]) :
              EndsPaging(served[l][i]) => (i = Len(served[l]) /\ built[l] # {})
        /\ built[l] # {} =>
              /\ Len(requests[l]) = Len(served[l])
              /\ EndsPaging(served[l][Len(served[l])])

\* C20 (step part): a request is issued only on the step that receives the
\* previous page (or begins the rebuild), and never after the rebuild is over.
C20_PaginationStep ==
    \A l \in Loaders :
        requests'[l] # requests[l] =>
            /\ Len(requests'[l]) = Len(requests[l]) + 1
            /\ lpc'[l] = "building"
            /\ requests[l] # <<>> =>
                  (lpc[l] = "building" /\ Len(served'[l]) = Len(served[l]) + 1)

\* C20: pagination by offsets of 100, stopping at the first page without next or
\* without results; a rebuild that began comes to its end.
C20_Pagination ==
    /\ []C20_PaginationState
    /\ [][C20_PaginationStep]_vars
    /\ \A l \in Loaders : (lpc[l] = "building") ~> (lpc[l] # "building")

\* a rebuild ended on its third page after requesting offsets 0, 100 and 200
C20_Witness ==
    \E l \in Loaders :
        /\ built[l] # {}
        /\ requests[l] = <<0, 100, 200>>
        /\ Len(served[l]) = 3
        /\ ~served[l][3].next

\* the keys of the entries among es that have a string key and a numeric value
KeptKeys(es) ==
    {es[i].oracleId.val : i \in {j \in 1..Len(es) :
                                    es[j].oracleId.type = "string" /\ es[j].id.type = "number"}}

\* C21 as stated: a page whose results is not an array, and which has a next, does
\* not end the rebuild: the next offset is requested after it.
C21_MalformedPageContinues ==
    \A l \in Loaders : \A i \in 1..Len(served[l]) :
        (~served[l][i].isArray /\ served[l][i].next) =>
            /\ LastOf(trail[l]) # "buildFailed" \/ Len(served[l]) > i
            /\ Len(requests[l]) > i

\* C21 amended: a page whose results is not an array does not make the rebuild
\* fail, and it ends the pagination like any page without results, with or
\* without a next: it is the last page received, nothing is requested after it,
\* and the index produced holds the keys of the pages before it.
C21_MalformedPageEnds ==
    \A l \in Loaders : \A i \in 1..Len(served[l]) :
        ~served[l][i].isArray =>
            /\ i = Len(served[l])
            /\ Len(requests[l]) = i
            /\ built[l] # {}
            /\ LastOf(trail[l]) # "buildFailed"
            /\ \A d \in built[l] :
                  DOMAIN d.oracleToId = KeptKeys(EntriesOf(SubSeq(served[l], 1, i - 1)))

\* the second page of a catalog came without a results array and with a next: the
\* rebuild ended there with the key of the first page, having requested offsets 0
\* and 100 only
C21_Witness ==
    \E l \in Loaders :
        /\ Len(served[l]) = 2
        /\ served[l][1].results = <<Entry(Str(1), Num(1))>>
        /\ ~served[l][2].isArray
        /\ served[l][2].next
        /\ requests[l] = <<0, 100>>
        /\ Returned(l, "load")
        /\ ret[l].kind = "data"
        /\ ret[l].value.oracleToId = [k \in {1} |-> 1]

\* loader l rebuilt the index and its write was completed
BuiltAndWrote(l) ==
    /\ Returned(l, "load")
    /\ call[l].cache = "index"
    /\ Builds(l) = 1
    /\ LastOf(trail[l]) = "write"

\* C22: when two loads that both began before either had returned have both
\* rebuilt and written the index, each returned the index its rebuild produced,
\* and the copy in memory and the file each hold the whole index of one of the
\* two rebuilds.
C22_ConcurrentLoadsLeaveOneIndex ==
    \A l1, l2 \in Loaders :
        (l1 < l2 /\ BuiltAndWrote(l1) /\ BuiltAndWrote(l2) /\ l1 \notin after[l2]) =>
            /\ \A l \in {l1, l2} : ret[l].kind = "data" /\ ret[l].value \in built[l]
            /\ \E l \in {l1, l2} : \E d \in built[l] :
                  memCache["index"] = {[at |-> callAt[l], data |-> d]}
            /\ \E l \in {l1, l2} : \E d \in built[l] :
                  /\ file["index"].state = "present"
                  /\ file["index"].text = Stringify(d)

\* the texts of the anchors of doc whose marker is one of ps, empty texts apart
TextsMarked(doc, ps) == {doc[i].text : i \in {j \in 1..Len(doc) :
                                                 doc[j].prefix \in ps /\ doc[j].text # 0}}

\* a list in strictly ascending order: sorted and without duplicates
Ascending(seq) == \A i, j \in 1..Len(seq) : i < j => seq[i] < seq[j]

\* C23: the tags extracted from a page are: in the function list, the texts of
\* the anchors marked oracletag, otag or function; in the art list, the texts of
\* the anchors marked arttag, atag or art; each list sorted without duplicates.
C23_TagsInTheirCategory ==
    \A l \in Loaders : \A d \in built[l] :
        call[l].cache = "tags" =>
            /\ Range(d.function) = TextsMarked(served[l][1], {"oracletag", "otag", "function"})
            /\ Range(d.art) = TextsMarked(served[l][1], {"arttag", "atag", "art"})
            /\ Ascending(d.function)
            /\ Ascending(d.art)

\* the oracle ids of the outcomes that are cards with a string oracle_id, in order
RECURSIVE OidsOf(_)
OidsOf(got) ==
    IF got = <<>> THEN <<>>
    ELSE LET o == got[Len(got)]
             front == OidsOf(SubSeq(got, 1, Len(got) - 1))
         IN  IF o.kind = "card" /\ o.oracle_id.type = "string"
             THEN Append(front, o.oracle_id.val) ELSE front

\* C24: in the find-combos-by-names tool the names are looked up in order and
\* every name is looked up before anything else happens, whatever lookups failed;
\* the ids collected are those of the lookups that gave a card with an id, in
\* order, the failed ones left out; the tool reports "nothing resolved" only when
\* no lookup gave an id, and fails only with the error of the index lookup or of
\* the combo request.
C24_FailedNameSkipped ==
    /\ tool.tried = SubSeq(tool.names, 1, Len(tool.tried))
    /\ Len(tool.got) = Len(tool.tried)
    /\ tool.oracleIds = OidsOf(tool.got)
    /\ (tool.pc \in {"combos", "done"} \/ \E l \in Loaders : Begun(l)) =>
          tool.tried = tool.names
    /\ tool.out.kind = "text" => OidsOf(tool.got) = <<>>
    /\ tool.out.kind = "error" =>
          \/ \E l \in Loaders : Returned(l, "lookup") /\ ret[l].kind = "error" /\ tool.out = ret[l]
          \/ tool.mapping.kind = "lookup" /\ DOMAIN tool.mapping.value.found # {}

\* of two names the first lookup failed and the second gave a card whose id the
\* index holds: the tool went on to the combo request and returned its result
C24_Witness ==
    /\ tool.pc = "done"
    /\ Len(tool.names) = 2
    /\ tool.got = <<NameError, Card(Str(2))>>
    /\ tool.oracleIds = <<2>>
    /\ tool.out.kind = "combos"
    /\ DOMAIN tool.out.value.found = {2}

\* C25: an operation that has computed its result afresh (load, fetchTaggerTags,
\* refreshTaggerTags, the csb_build_card_index tool) and has returned, has not
\* returned an error, whether its writes of the cache file failed or not.
C25_WriteFailureNeverRaised ==
    \A l \in Loaders :
        (lpc[l] = "done" /\ built[l] # {}
            /\ call[l].op \in {"load", "fetchTags", "refreshTags", "buildIndex"}) =>
            ret[l].kind # "error"

\* C28: a non-forced load or lookup that began after the run of the build-index
\* tool had completed with its file written returns the index the tool built
\* (load) or the partition over it (lookup).
C28_LoadAfterToolIsNew ==
    \A l1, l2 \in Loaders :
        (Returned(l2, "buildIndex") /\ ret[l2].kind = "built" /\ l2 \in after[l1]
            /\ lpc[l1] = "done" /\ call[l1].op \in {"load", "lookup"} /\ ~call[l1].force) =>
            \A d \in built[l2] :
                /\ call[l1].op = "load" => ret[l1] = [kind |-> "data", value |-> d]
                /\ call[l1].op = "lookup" => ret[l1] = Lookup(d, call[l1].ids)

\* caller c is inside acquireSlot
InAcquire(c) == pc[c] \in {"awaitPrev", "slotSleep"}

\* C26 (state part): the ticket of a caller that is past acquireSlot is released,
\* and the clock is never held back while a timer is pending.
C26_TicketsReleased ==
    /\ \A c \in Callers :
          (pc[c] \in {"acquired", "fetching", "backoff", "done"}
              /\ UsesGovernor(fn[c], scryfallModule)) =>
              mine[c] \in resolved[GovernorOf(fn[c])]
    /\ PendingTimer => now + TickMs <= horizon

\* C26: under fair scheduling every caller inside acquireSlot comes out of it with
\* its slot granted and its ticket released, whatever the other callers' requests
\* do (their responses may never come).
C26_SlotAlwaysGranted ==
    /\ []C26_TicketsReleased
    /\ \A c \in Callers : InAcquire(c) ~> (pc[c] = "acquired")

\* both callers went through acquireSlot on the same governor, the second after a
\* sleep, while the request of the first is still unanswered
C26_Witness ==
    \E c, d \in Callers :
        /\ c # d
        /\ GovernorOf(fn[c]) = GovernorOf(fn[d])
        /\ UsesGovernor(fn[c], scryfallModule)
        /\ UsesGovernor(fn[d], scryfallModule)
        /\ pc[c] = "fetching"
        /\ received[c] = 0
        /\ pc[d] = "acquired"
        /\ Len(grants[GovernorOf(fn[c])]) = 2
        /\ lastStart[GovernorOf(fn[c])] > StartTime

\* ---------------------------------------------------------------- C27

\* the positions of caller c in the arrival log of governor g
PlacesOf(g, c) == {i \in 1..Len(arrivals[g]) : arrivals[g][i][1] = c}

\* a caller in its back-off sleep holds no place in any queue: each of its
\* acquireSlot calls has been dispatched
C27_NoPlaceInBackoff ==
    \A c \in Callers :
        pc[c] = "backoff" =>
            \A g \in Governors : \A i \in PlacesOf(g, c) : i <= Len(grants[g])

\* the retry joins the tail when the back-off ends, and not before: while the
\* caller sleeps the arrival log grows by other callers only, and the step that
\* ends the sleep with a retry appends the retry behind all of them
C27_JoinsTailStep ==
    \A c \in Callers :
        pc[c] = "backoff" =>
            LET g == GovernorOf(fn[c])
            IN  /\ pc'[c] = "backoff" => PlacesOf(g, c)' = PlacesOf(g, c)
                /\ pc'[c] \notin {"backoff", "done"} =>
                      /\ now >= wakeAt[c]
                      /\ pc'[c] = "awaitPrev"
                      /\ arrivals'[g] = Append(arrivals[g], <<c, attempt[c] + 1>>)

\* the dispatch of a retry is the next one in arrival order and comes at least
\* intervalMs after the dispatch before it
C27_RetryDispatchStep ==
    \A g \in Governors :
        (grants'[g] # grants[g] /\ LastOf(grants'[g])[2] > 0) =>
            /\ grants'[g] = Append(grants[g], arrivals[g][Len(grants[g]) + 1])
            /\ lastStart'[g] = now
            /\ now - lastStart[g] >= intervalMs

\* C27: a caller retrying after a 429 keeps no place in the queue; its retry
\* joins the tail of the arrival order only when its back-off sleep has ended,
\* behind every caller that called acquireSlot meanwhile, is dispatched in that
\* order, and at least intervalMs after the dispatch before it.
C27_RetryJoinsTail ==
    /\ []C27_NoPlaceInBackoff
    /\ [][C27_JoinsTailStep /\ C27_RetryDispatchStep]_vars

\* a retry was dispatched after another caller, whose acquireSlot call came
\* between the first attempt and the retry, and exactly intervalMs after it
C27_Witness ==
    \E g \in Governors : \E c, d \in Callers :
        /\ c # d
        /\ arrivals[g] = <<<<c, 0>>, <<d, 0>>, <<c, 1>>>>
        /\ grants[g] = arrivals[g]
        /\ lastStart[g] - prevStart[g] = intervalMs

\* ---------------------------------------------------------------- C29

\* the call of loader l is a load or lookup that so far has neither answered from
\* memory, nor adopted the file, nor completed a rebuild
Unbuilt(l) ==
    /\ call[l].op \in {"load", "lookup"}
    /\ built[l] = {}
    /\ Range(trail[l]) \subseteq {"read", "buildFailed"}

\* loader l takes the step
Steps(l) ==
    <<lpc[l], call[l], served[l], trail[l]>>' # <<lpc[l], call[l], served[l], trail[l]>>

\* a call whose rebuild failed never got further than the read and the requests
C29_FailedCallState ==
    \A l \in Loaders :
        LastOf(trail[l]) = "buildFailed" =>
            /\ Unbuilt(l)
            /\ lpc[l] = "done"
            /\ ret[l].kind = "error"

\* no step of a call up to the completion of its rebuild, the step on which the
\* rebuild fails among them, touches the copy in memory or the file, whatever
\* the call has accumulated
C29_UnbuiltStep ==
    \A l \in Loaders :
        (Steps(l) /\ Unbuilt(l)') => (memCache' = memCache /\ file' = file)

\* C29: when the rebuild fails inside a load, forced or not, the copy in memory
\* and the cache file are, from the beginning of the call to its end, what they
\* were before it; nothing of the partially accumulated mapping is adopted or
\* written, so that a later load finds the caches as if the call had not been.
C29_FailedBuildLeavesCaches == []C29_FailedCallState /\ [][C29_UnbuiltStep]_vars

\* a forced load failed on the second page of the catalog, one entry accumulated,
\* while memory held the index of an earlier load and the file its text
C29_Witness ==
    /\ Returned(1, "load")
    /\ call[1].force
    /\ trail[1] = <<"buildFailed">>
    /\ DOMAIN acc[1] = {1}
    /\ \E m \in memCache["index"] : DOMAIN m.data.oracleToId = {1, 3}
    /\ file["index"].state = "present"
    /\ file["index"].text = Stringify((CHOOSE m \in memCache["index"] : TRUE).data)

\* ---------------------------------------------------------------- C30

\* a value of the shape of CsbCardIndex
WellFormed(data) == {"total", "builtAtMs", "oracleToId"} \subseteq DOMAIN data

\* C30: the copy of the index in memory and every index a load returns are
\* well-formed, whatever JSON the cache file holds, and no lookup fails except
\* with the error of a failed rebuild.
C30_OnlyIndexAdopted ==
    /\ \A m \in memCache["index"] : WellFormed(m.data)
    /\ \A l \in Loaders :
          /\ (Returned(l, "load") /\ ret[l].kind = "data") => WellFormed(ret[l].value)
          /\ Returned(l, "lookup") =>
                (ret[l].kind = "lookup" \/ (ret[l].kind = "error" /\ ret[l].error \in BuildErrors))

====
